---- MODULE Spec2Model ----
(***************************************************************************)
(* Model of the instance registry of erikis/instances-script:              *)
(*   instances-update.py   the reconciler (main, load_instances_json,      *)
(*                         save_instances_json, update_instance)           *)
(*   instances-process.py  the generator (main, save_instances_hosts,      *)
(*                         save_instances_nftables)                        *)
(* Spec is the reconciler alone on its files; SpecGen is the reconciler    *)
(* and the generator, one invocation at a time; SpecLock is both scripts   *)
(* run by several processes, step by step, under the FileLock; SpecFault   *)
(* is SpecGen with writes of the generator that fail; SpecArtifacts is the *)
(* generator run on every registry of a bounded set; SpecPair is two       *)
(* invocations of the reconciler started on one registry, step by step.    *)
(*                                                                         *)
(* Texts are modelled by their characters' structure, so that string       *)
(* equality in the code is equality in the model:                          *)
(*   a MAC text "aa:bb:cc:dd:ee:ff" is the tuple of its 12 hex digits;     *)
(*   an IPv4 text is [t |-> "v4", o |-> its four decimal octets];          *)
(*   an IPv6 text is [t |-> "v6", s |-> its colon-separated groups], each  *)
(*   group the tuple of its hex digits as written and the empty group      *)
(*   standing for the "::" of a compressed text.                           *)
(* A Python dict of the registry is a function whose missing keys read as  *)
(* None; the registry is a function from MAC texts to such records.        *)
(***************************************************************************)
EXTENDS Integers, Sequences, FiniteSets, TLC

\* ---------------------------------------------------------------- bounds
\* Number of link identifiers (MAC addresses) events may name.
NumMacs == 2
\* Number of processes that run the scripts at the same time.
NumProcs == 2

\* ---------------------------------------------------------------- values
\* Python's None, as read by dict.get on a missing key or passed as ip_address.
None == [t |-> "None"]
\* args.hostname when the positional argument is not given (hostname is None).
NoHostname == "<None>"

AllMacs == << <<10,10, 11,11, 12,12, 13,13, 14,14, 15,15>>,    \* aa:bb:cc:dd:ee:ff
              <<10,10, 11,11, 12,12, 1,1, 2,2, 3,3>>,          \* aa:bb:cc:11:22:33
              <<0,2, 0,0, 0,0, 0,0, 0,0, 0,1>> >>              \* 02:00:00:00:00:01
Macs == {AllMacs[i] : i \in 1..NumMacs}

\* The MAC addresses of the host's own interfaces.
InterfaceMacs == {AllMacs[1]}

Names == {"radish", "carrot"}

\* 111.112.113.114 and 111.112.113.115
IPv4Texts == {[t |-> "v4", o |-> <<111, 112, 113, 114>>],
              [t |-> "v4", o |-> <<111, 112, 113, 115>>]}
\* 2001:1234:5678::9abc
GuaText == [t |-> "v6", s |-> << <<2,0,0,1>>, <<1,2,3,4>>, <<5,6,7,8>>, <<>>, <<9,10,11,12>> >>]
\* the same address written 2001:1234:5678:0:0:0:0:9abc
GuaTextLong == [t |-> "v6", s |-> << <<2,0,0,1>>, <<1,2,3,4>>, <<5,6,7,8>>, <<0>>, <<0>>,
                                     <<0>>, <<0>>, <<9,10,11,12>> >>]
\* fdb8:7a32:ffb5::1234
UlaText == [t |-> "v6", s |-> << <<15,13,11,8>>, <<7,10,3,2>>, <<15,15,11,5>>, <<>>,
                                 <<1,2,3,4>> >>]
\* fe80::1
LlaText == [t |-> "v6", s |-> << <<15,14,8,0>>, <<>>, <<1>> >>]
\* fe80::a8bb:ccff:fedd:eeff, the link-local address an interface with the
\* MAC aa:bb:cc:dd:ee:ff configures by EUI-64
LlaTextEui == [t |-> "v6", s |-> << <<15,14,8,0>>, <<>>, <<10,8,11,11>>, <<12,12,15,15>>,
                                    <<15,14,13,13>>, <<14,14,15,15>> >>]
IPv6Texts == {GuaText, GuaTextLong, UlaText, LlaText}
\* 2001:1234:5678::9abd
Gua2Text == [t |-> "v6", s |-> << <<2,0,0,1>>, <<1,2,3,4>>, <<5,6,7,8>>, <<>>, <<9,10,11,13>> >>]
\* ::1
LoopbackText == [t |-> "v6", s |-> << <<>>, <<1>> >>]
\* Texts that are not what they should be: the MAC "aa:bb", the IP address
\* 111.112.113.256, the names "9lives" and br"0.
BadMac == <<10,10, 11,11>>
BadIPText == [t |-> "v4", o |-> <<111, 112, 113, 256>>]
BadName == "9lives"
BadInterface == "br\"0"
IPTexts == IPv4Texts \cup IPv6Texts

\* ------------------------------------------------- ipaddress (library)
RECURSIVE HexVal(_)
HexVal(d) == IF d = <<>> THEN 0 ELSE 16 * HexVal(SubSeq(d, 1, Len(d) - 1)) + d[Len(d)]

RECURSIVE HexDigits(_)
HexDigits(n) == IF n < 16 THEN <<n>> ELSE HexDigits(n \div 16) \o <<n % 16>>

\* ipaddress.ip_address(text): the parsed value, [t |-> "IPv4Address", o |-> octets]
\* or [t |-> "IPv6Address", h |-> the eight 16-bit hextets].
ip_address_parse(text) ==
    IF text.t = "v4" THEN [t |-> "IPv4Address", o |-> text.o]
    ELSE LET s == text.s
             gaps == {k \in 1..Len(s) : s[k] = <<>>}
         IN IF gaps = {} THEN [t |-> "IPv6Address", h |-> [k \in 1..8 |-> HexVal(s[k])]]
            ELSE LET g == CHOOSE k \in gaps : TRUE
                     zeros == 8 - (Len(s) - 1)
                 IN [t |-> "IPv6Address",
                     h |-> [k \in 1..8 |->
                              IF k < g THEN HexVal(s[k])
                              ELSE IF k < g + zeros THEN 0
                              ELSE HexVal(s[k - zeros + 1])]]

\* ipaddress.ip_address(text) returns: it raises ValueError unless the text is
\* four decimal octets, or up to eight groups of up to four hex digits with
\* at most one "::" standing for the groups left out.
ip_address_valid(text) ==
    IF text.t = "v4"
    THEN Len(text.o) = 4 /\ \A k \in 1..4 : text.o[k] \in 0..255
    ELSE LET s == text.s
             gaps == {k \in 1..Len(s) : s[k] = <<>>}
         IN /\ Cardinality(gaps) <= 1
            /\ \A k \in 1..Len(s) : Len(s[k]) <= 4 /\ \A i \in 1..Len(s[k]) : s[k][i] \in 0..15
            /\ IF gaps = {} THEN Len(s) = 8 ELSE Len(s) <= 8

\* Length of the run of zero hextets of h that starts at index i.
RECURSIVE ZeroRun(_, _)
ZeroRun(h, i) == IF i > Len(h) \/ h[i] # 0 THEN 0 ELSE 1 + ZeroRun(h, i + 1)

\* str(ip_address): the canonical text; for IPv6 the leftmost longest run of two
\* or more zero hextets becomes "::" and no hextet has leading zeros.
str(ip) ==
    IF ip.t = "IPv4Address" THEN [t |-> "v4", o |-> ip.o]
    ELSE LET h == ip.h
             best == CHOOSE i \in 1..8 :
                        /\ \A j \in 1..8 : ZeroRun(h, j) <= ZeroRun(h, i)
                        /\ \A j \in 1..(i - 1) : ZeroRun(h, j) < ZeroRun(h, i)
             len == ZeroRun(h, best)
             hex == [k \in 1..8 |-> HexDigits(h[k])]
         IN IF len > 1
            THEN [t |-> "v6", s |-> SubSeq(hex, 1, best - 1) \o << <<>> >>
                                    \o SubSeq(hex, best + len, 8)]
            ELSE [t |-> "v6", s |-> hex]

\* IPv6Address.is_global for the addresses of the model: inside 2000::/3 and
\* outside the IETF protocol assignments 2001::/23, the documentation block
\* 2001:db8::/32 and 6to4 2002::/16.
is_global(ip) ==
    /\ ip.t = "IPv6Address"
    /\ ip.h[1] \div 8192 = 1
    /\ ~(ip.h[1] = 8193 /\ ip.h[2] < 512)
    /\ ~(ip.h[1] = 8193 /\ ip.h[2] = 3512)
    /\ ip.h[1] # 8194

\* ULA.supernet_of(ip_network(int(ip_address))): membership of fc00::/7.
ULA_supernet_of(ip) == ip.t = "IPv6Address" /\ ip.h[1] \div 512 = 126

\* The version of ipaddress.ip_network(int(ip_address)): ip_network makes an
\* IPv4Network of an integer below 2^32, whatever address it came from.
ip_network_version(ip) ==
    IF ip.t = "IPv6Address" /\ \A k \in 1..6 : ip.h[k] = 0 THEN 4 ELSE 6

\* ULA.supernet_of(ip_network) raises TypeError ("are not of the same
\* version") for an IPv4Network; it is reached when the address is not global.
supernet_of_raises(ip) ==
    ip.t = "IPv6Address" /\ ~is_global(ip) /\ ip_network_version(ip) = 4

\* IPv6Address.is_link_local: membership of fe80::/10.
is_link_local(ip) == ip.t = "IPv6Address" /\ ip.h[1] \div 64 = 1018

\* re.fullmatch(r'([0-9a-f]{2}:){5}[0-9a-f]{2}', mac_address), on the hex
\* digits of the text
mac_address_re(mac) == Len(mac) = 12 /\ \A k \in 1..12 : mac[k] \in 0..15

\* ------------------------------------------------------ the registry
Fields == {"name", "ipv4", "ipv6_gua", "ipv6_ula", "ipv6_lla"}
\* ip_address_fields of update_instance: the fields checked across records.
ip_address_fields == {"ipv4", "ipv6_gua", "ipv6_ula"}

\* hex(int(d, 16) ^ 2)[2:] for one hex digit d: bit 1 of the digit inverted.
Xor2(d) == IF (d \div 2) % 2 = 1 THEN d - 2 ELSE d + 2

\* Mutant: the universal/local bit of the MAC address is not inverted.
ipv6_lla_of_NoInvert(mac_address) ==
    LET mac_hex == mac_address
        eui64 == SubSeq(mac_hex, 1, 6) \o <<15, 15, 15, 14>> \o SubSeq(mac_hex, 7, 12)
    IN [t |-> "v6", s |-> << <<15,14,8,0>>, <<>>, SubSeq(eui64, 1, 4), SubSeq(eui64, 5, 8),
                             SubSeq(eui64, 9, 12), SubSeq(eui64, 13, 16) >>]

\* The EUI-64 link-local text update_instance formats from the MAC text:
\* f'fe80::{eui64[0:4]}:{eui64[4:8]}:{eui64[8:12]}:{eui64[12:16]}'.
ipv6_lla_of(mac_address) ==
    LET mac_hex == mac_address
        eui64 == <<mac_hex[1], Xor2(mac_hex[2])>> \o SubSeq(mac_hex, 3, 6)
                 \o <<15, 15, 15, 14>> \o SubSeq(mac_hex, 7, 12)
    IN [t |-> "v6", s |-> << <<15,14,8,0>>, <<>>, SubSeq(eui64, 1, 4), SubSeq(eui64, 5, 8),
                             SubSeq(eui64, 9, 12), SubSeq(eui64, 13, 16) >>]

\* Mutant: a link-local address is routed to ipv6_lla, as load_instances_json does.
FieldOf_WithLla(ip) ==
    IF ip.t = "IPv6Address"
    THEN IF is_global(ip) THEN "ipv6_gua"
         ELSE IF ULA_supernet_of(ip) THEN "ipv6_ula"
         ELSE IF is_link_local(ip) THEN "ipv6_lla" ELSE "None"
    ELSE "ipv4"

\* The field of the target record an address is routed to, None when the
\* address is ignored (IPv6 that is neither global nor unique-local).
FieldOf(ip) ==
    IF ip.t = "IPv6Address"
    THEN IF is_global(ip) THEN "ipv6_gua"
         ELSE IF ULA_supernet_of(ip) THEN "ipv6_ula" ELSE "None"
    ELSE "ipv4"

\* Mutant: the record that loses an address loses its name as well.
Evict_WithName(ins, instance) ==
    [f \in Fields |->
        IF f \in ip_address_fields /\ ins[f] # None /\ ins[f] = instance[f]
        THEN None
        ELSE IF f = "name" /\ \E g \in ip_address_fields :
                                 ins[g] # None /\ ins[g] = instance[g]
        THEN ""
        ELSE ins[f]]

\* "If another instance has the same IP address then no longer use it for
\* that instance": the record ins of another MAC after the loop over
\* ip_address_fields, compared with the target record instance.
Evict(ins, instance) ==
    [f \in Fields |->
        IF f \in ip_address_fields /\ ins[f] # None /\ ins[f] = instance[f]
        THEN None ELSE ins[f]]

\* Mutant: the name of the other record is not cleared.
ClearName_Keep(ins, hostname) == ins

\* "If another instance has the same name then clear its name".
ClearName(ins, hostname) ==
    IF ins["name"] = hostname THEN [ins EXCEPT !["name"] = ""] ELSE ins

\* Mutant: the created record takes the hostname although another record holds it.
NewName_LatestWins(instances, hostname) ==
    IF hostname = NoHostname THEN "" ELSE hostname

\* The name a created record gets: the hostname unless it is not given or
\* another record holds it.
NewName(instances, hostname) ==
    IF hostname = NoHostname THEN ""
    ELSE IF \E mac \in DOMAIN instances : instances[mac]["name"] = hostname THEN ""
    ELSE hostname

\* Mutant: the early return is missing.
IsNoop_Never(instances, mac_address, ip_address) == FALSE

\* "Trying to rename or remove non-existent instance -- ignore".
IsNoop(instances, mac_address, ip_address) ==
    mac_address \notin DOMAIN instances /\ ip_address = None

\* The record created for a MAC that is not in the dict.
Created(instances, mac_address, hostname) ==
    [f \in Fields |->
        IF f = "name" THEN NewName(instances, hostname)
        ELSE IF f = "ipv6_lla" THEN ipv6_lla_of(mac_address)
        ELSE None]

\* Mutant: the removal does not check that no address is given.
IsRemove_NoHostname(ip_address, hostname) == hostname = NoHostname

\* "Not actually updating IP address but removing the instance".
IsRemove(ip_address, hostname) == ip_address = None /\ hostname = NoHostname

\* Mutant: the removal empties the dict.
Removed_All(instances, mac_address) == [mac \in {} |-> instances[mac]]

\* del instances[mac_address]
Removed(instances, mac_address) ==
    [mac \in DOMAIN instances \ {mac_address} |-> instances[mac]]

\* Mutant: the target record keeps its old name.
Renamed_Keep(instance, hostname) == instance

\* The target record after "instance['name'] = hostname".
Renamed(instance, hostname) == [instance EXCEPT !["name"] = hostname]

\* Mutant: the field is written, and the change reported, without comparing.
ApplyAddress_AlwaysUpdated(found, ip_address) ==
    LET field == FieldOf(ip_address)
    IN IF field # "None"
       THEN [instance |-> [found EXCEPT ![field] = str(ip_address)], updated |-> TRUE]
       ELSE [instance |-> found, updated |-> FALSE]

\* "Update IP address field based on address type": the target record after
\* the update and whether a field was set.
ApplyAddress(found, ip_address) ==
    LET field == FieldOf(ip_address)
    IN IF field # "None" /\ found[field] # str(ip_address)
       THEN [instance |-> [found EXCEPT ![field] = str(ip_address)], updated |-> TRUE]
       ELSE [instance |-> found, updated |-> FALSE]

\* update_instance(instances, mac_address, ip_address, hostname): the dict
\* after the call and the returned flag, or raised when an exception leaves it.
update_instance(instances, mac_address, ip_address, hostname) ==
    IF IsNoop(instances, mac_address, ip_address)
    THEN [instances |-> instances, updated |-> FALSE, raised |-> FALSE]
    ELSE IF supernet_of_raises(ip_address)
    THEN \* TypeError leaves update_instance; nothing is returned
         [instances |-> instances, updated |-> FALSE, raised |-> TRUE]
    ELSE
    LET created == mac_address \notin DOMAIN instances
        found == IF created THEN Created(instances, mac_address, hostname)
                 ELSE instances[mac_address]
        others == DOMAIN instances \ {mac_address}
        all == DOMAIN instances \cup {mac_address}
    IN IF IsRemove(ip_address, hostname)
       THEN [instances |-> Removed([mac \in all |-> IF mac = mac_address THEN found
                                                    ELSE instances[mac]], mac_address),
             updated |-> TRUE, raised |-> FALSE]
       ELSE IF ip_address = None
       THEN \* renaming the instance
            [instances |-> [mac \in all |->
                              IF mac = mac_address THEN Renamed(found, hostname)
                              ELSE ClearName(instances[mac], hostname)],
             updated |-> \/ created
                         \/ found["name"] # hostname
                         \/ \E mac \in others :
                               ClearName(instances[mac], hostname) # instances[mac],
             raised |-> FALSE]
       ELSE LET applied == ApplyAddress(found, ip_address)
            IN [instances |-> [mac \in all |->
                                 IF mac = mac_address THEN applied.instance
                                 ELSE Evict(instances[mac], applied.instance)],
                updated |-> \/ created
                            \/ applied.updated
                            \/ \E mac \in others :
                                  Evict(instances[mac], applied.instance) # instances[mac],
                raised |-> FALSE]

\* ------------------------------------------- load_instances_json / "ip"
\* What the three "ip ... | jq" commands print for an interface: the lines
\* of its MAC address, of its IPv4 addresses and of its IPv6 addresses.
IpOutputs ==
    {[mac |-> <<>>, inet |-> <<>>, inet6 |-> <<>>]} \cup
    [mac : {<<m>> : m \in InterfaceMacs},
     inet : {<<>>, <<[t |-> "v4", o |-> <<111, 112, 113, 114>>]>>},
     inet6 : {<<>>, <<LlaTextEui>>, <<GuaText, LlaText>>,
              <<UlaText, GuaTextLong, LlaTextEui, LlaText>>}]

\* The loop "for ipv6_address in results[2]" from line k on: every address
\* overwrites the field of its class.
RECURSIVE AddInet6(_, _, _)
AddInet6(instance, lines, k) ==
    IF k > Len(lines) THEN instance
    ELSE LET ip == ip_address_parse(lines[k])
             field == IF is_global(ip) THEN "ipv6_gua"
                      ELSE IF ULA_supernet_of(ip) THEN "ipv6_ula"
                      ELSE IF is_link_local(ip) THEN "ipv6_lla"
                      ELSE "None"
         IN AddInet6(IF field = "None" THEN instance
                     ELSE [instance EXCEPT ![field] = str(ip)], lines, k + 1)

\* The record load_instances_json builds for the interface.
InterfaceInstance(results) ==
    LET named == [f \in Fields |-> IF f = "name" THEN "" ELSE None]
        with4 == IF Len(results.inet) = 1
                 THEN [named EXCEPT !["ipv4"] = str(ip_address_parse(results.inet[1]))]
                 ELSE named
    IN AddInet6(with4, results.inet6, 1)

\* Mutant: a record the dict has for the interface is kept as it is.
load_instances_json_Keep(results, file) ==
    LET instances == IF file.json_exists THEN file.json ELSE <<>>
    IN IF results = None THEN [instances |-> instances, mac |-> <<>>]
       ELSE IF Len(results.mac) # 1 THEN [instances |-> instances, mac |-> <<>>]
       ELSE LET mac_address == results.mac[1]
            IN [instances |-> [mac \in DOMAIN instances \cup {mac_address} |->
                                  IF mac \in DOMAIN instances THEN instances[mac]
                                  ELSE InterfaceInstance(results)],
                mac |-> mac_address]

\* load_instances_json(interface_name, file_path): the dict read from the file
\* ({} when it does not exist) and the MAC of the interface; results is what
\* "ip" prints when an interface name is given, None otherwise.
load_instances_json(results, file) ==
    LET instances == IF file.json_exists THEN file.json ELSE <<>>
    IN IF results = None THEN [instances |-> instances, mac |-> <<>>]
       ELSE IF Len(results.mac) # 1 THEN [instances |-> instances, mac |-> <<>>]
       ELSE LET mac_address == results.mac[1]
            IN [instances |-> [mac \in DOMAIN instances \cup {mac_address} |->
                                  IF mac = mac_address THEN InterfaceInstance(results)
                                  ELSE instances[mac]],
                mac |-> mac_address]

\* ------------------------------------------------ characters of texts
\* Names, domains and set names are strings; the regular expressions and
\* str.replace of the scripts work on their characters.
Lower == {"a","b","c","d","e","f","g","h","i","j","k","l","m","n","o","p","q","r","s",
          "t","u","v","w","x","y","z"}
Upper == {"A","B","C","D","E","F","G","H","I","J","K","L","M","N","O","P","Q","R","S",
          "T","U","V","W","X","Y","Z"}
Digit == {"0","1","2","3","4","5","6","7","8","9"}

Spelling ==
    ("" :> <<>>) @@
    ("radish" :> <<"r","a","d","i","s","h">>) @@
    ("carrot" :> <<"c","a","r","r","o","t">>) @@
    ("host" :> <<"h","o","s","t">>) @@
    ("web-1" :> <<"w","e","b","-","1">>) @@
    ("9lives" :> <<"9","l","i","v","e","s">>) @@
    ("br0" :> <<"b","r","0">>) @@
    ("br\"0" :> <<"b","r","\"","0">>) @@
    (".instance.internal" :> <<".","i","n","s","t","a","n","c","e",".","i","n","t","e","r",
                               "n","a","l">>) @@
    (".my_lan" :> <<".","m","y","_","l","a","n">>)

\* re.fullmatch(r'[a-zA-Z][a-zA-Z0-9-]*', name)
hostname_re(name) ==
    LET c == Spelling[name]
    IN /\ Len(c) >= 1
       /\ c[1] \in Lower \cup Upper
       /\ \A k \in 2..Len(c) : c[k] \in Lower \cup Upper \cup Digit \cup {"-"}

\* re.fullmatch(r'[^"]+', interface_name)
interface_re(interface_name) ==
    LET c == Spelling[interface_name]
    IN Len(c) >= 1 /\ \A k \in 1..Len(c) : c[k] # "\""

\* re.fullmatch(r'[a-zA-Z0-9\.-]*', domain)
domain_re(domain) ==
    LET c == Spelling[domain]
    IN \A k \in 1..Len(c) : c[k] \in Lower \cup Upper \cup Digit \cup {".", "-"}

\* name.replace('-', '_'), on the characters of the name
replace_hyphen(c) == [k \in 1..Len(c) |-> IF c[k] = "-" THEN "_" ELSE c[k]]

\* ------------------------------------------------- instances-process.py
\* The values of INSTANCES_HOSTS_DOMAIN: the default and one with a character
\* that is not allowed.
Domains == {".instance.internal", ".my_lan"}
\* The values of INSTANCES_ADDRESS_SETS, split at the commas: the default and
\* a list with a name of the registry and a name that is not a hostname.
AddressSets == {<<"host">>, <<"radish", "9lives">>}

\* "for _, instance in instances.items()": the keys of the dict, one after
\* the other. The order of the dict, that of insertion, is not modelled: the
\* keys are taken in the order of AllMacs.
RECURSIVE items(_, _)
items(instances, k) ==
    IF k > Len(AllMacs) THEN <<>>
    ELSE (IF AllMacs[k] \in DOMAIN instances THEN <<AllMacs[k]>> ELSE <<>>)
         \o items(instances, k + 1)

\* The lines written in a loop, from pass k on: the lines of each pass, one
\* after the other.
RECURSIVE WrittenFrom(_, _)
WrittenFrom(passes, k) ==
    IF k > Len(passes) THEN <<>> ELSE passes[k] \o WrittenFrom(passes, k + 1)

\* The lines written in a loop. The passes are bound by a quantifier, so
\* that they are computed once and not again at every step of the loop.
Written(passes) == CHOOSE lines \in {WrittenFrom(p, 1) : p \in {passes \o <<>>}} : TRUE

\* ip_address_fields of save_instances_hosts
hosts_fields == <<"ipv4", "ipv6_gua", "ipv6_ula", "ipv6_lla">>

\* Mutant: the link-local address is written under the name of the record.
HostsRow_LlaPrimary(name, field, ip_address, domain) ==
    [ip_address |-> ip_address,
     full_name |-> <<name, domain>>,
     extra_names |->
        IF field = "ipv4" THEN << <<name, ".v4", domain>> >>
        ELSE IF field = "ipv6_gua" THEN << <<name, ".v6", domain>>, <<name, ".g6", domain>> >>
        ELSE IF field = "ipv6_ula" THEN << <<name, ".v6", domain>>, <<name, ".u6", domain>> >>
        ELSE <<>>]

\* The line save_instances_hosts writes for one address of a named record:
\* "<ip-address> <full-name> <extra-names>", every name as the parts the
\* f-string joins.
HostsRow(name, field, ip_address, domain) ==
    [ip_address |-> ip_address,
     full_name |-> IF field = "ipv6_lla" THEN <<name, ".l6", domain>> ELSE <<name, domain>>,
     extra_names |->
        IF field = "ipv4" THEN << <<name, ".v4", domain>> >>
        ELSE IF field = "ipv6_gua" THEN << <<name, ".v6", domain>>, <<name, ".g6", domain>> >>
        ELSE IF field = "ipv6_ula" THEN << <<name, ".v6", domain>>, <<name, ".u6", domain>> >>
        ELSE <<>>]

\* save_instances_hosts opens the file unless the domain does not match
\* ("Invalid hosts domain", return count).
HostsWritten(domain) == domain_re(domain)

\* Mutant: ip_address_fields of save_instances_hosts without 'ipv6_lla'.
hosts_lines_NoLla(instance, domain) ==
    IF instance["name"] = "" THEN <<>>
    ELSE Written([k \in 1..3 |->
                    IF instance[hosts_fields[k]] # None
                    THEN <<HostsRow(instance["name"], hosts_fields[k],
                                    instance[hosts_fields[k]], domain)>>
                    ELSE <<>>])

\* The lines save_instances_hosts writes for one record: none "if name" is
\* false, else one for each field of ip_address_fields the record has.
hosts_lines(instance, domain) ==
    IF instance["name"] = "" THEN <<>>
    ELSE Written([k \in 1..Len(hosts_fields) |->
                    IF instance[hosts_fields[k]] # None
                    THEN <<HostsRow(instance["name"], hosts_fields[k],
                                    instance[hosts_fields[k]], domain)>>
                    ELSE <<>>])

\* save_instances_hosts(file_path, instances): the lines of the hosts file
\* after the call, old being the file before (None when missing).
save_instances_hosts(old, instances, domain) ==
    IF ~HostsWritten(domain) THEN old
    ELSE LET macs == items(instances, 1)
         IN [lines |-> Written([k \in 1..Len(macs) |->
                                  hosts_lines(instances[macs[k]], domain)])]

\* The keys of address_maps besides None: the names of INSTANCES_ADDRESS_SETS
\* that match, with their hyphens replaced; the others are printed and ignored.
address_map_names(address_sets) ==
    {replace_hyphen(Spelling[address_sets[k]]) :
        k \in {j \in 1..Len(address_sets) :
                 address_sets[j] # "" /\ hostname_re(address_sets[j])}}

\* The address maps a record of the given name is added to: all_addresses
\* (written <<>>, the key None) and address_maps.get(name).
address_maps_of(name, address_sets) ==
    {<<>>} \cup (IF name = "" THEN {}
                 ELSE {Spelling[name]} \cap address_map_names(address_sets))

\* 'counter drop comment "lockdown"', the line that ends both chains.
Lockdown == [verdict |-> "drop", comment |-> "lockdown"]

\* Mutant: the line returns for the sender IP whatever the source of the frame.
arp_permit_AnySource(mac_address, instance) ==
    [match |-> "arp saddr ip", ip_address |-> instance["ipv4"], mac_address |-> <<>>,
     verdict |-> "return", comment |-> instance["name"]]

\* 'arp saddr ip {ip_address} counter ether saddr {mac_address} counter
\* return{comment}'
arp_permit(mac_address, instance) ==
    [match |-> "arp saddr ip", ip_address |-> instance["ipv4"],
     mac_address |-> mac_address, verdict |-> "return", comment |-> instance["name"]]

\* Mutant: the chain ends without the drop.
arp_rules_NoLockdown(instances) ==
    LET macs == items(instances, 1)
    IN Written([k \in 1..Len(macs) |->
                  IF instances[macs[k]]["ipv4"] # None
                  THEN <<arp_permit(macs[k], instances[macs[k]])>>
                  ELSE <<>>])

\* The lines of chain instances_drop_arp: one for every record with an
\* ipv4, then the drop.
arp_rules(instances) ==
    LET macs == items(instances, 1)
    IN Written([k \in 1..Len(macs) |->
                  IF instances[macs[k]]["ipv4"] # None
                  THEN <<arp_permit(macs[k], instances[macs[k]])>>
                  ELSE <<>>])
       \o <<Lockdown>>

\* Mutant: the hextets without their leading zeros.
ExplodedHex_Short(ip) == Written([k \in 1..8 |-> HexDigits(ip.h[k])])

\* ipaddress.ip_address(ip_address).exploded.replace(':', ''): the 32 hex
\* digits of the address, every hextet with its leading zeros. The hextets
\* h and the digits d of one hextet are bound by quantifiers, so that they
\* are computed once.
ExplodedHex(ip) ==
    CHOOSE ip_hex \in
        {Written([k \in 1..8 |->
                    CHOOSE padded \in {[i \in 1..(4 - Len(d)) |-> 0] \o d :
                                          d \in {HexDigits(h[k])}} : TRUE]) :
            h \in {ip.h}} : TRUE

\* ip_address_fields of the loop that writes instances_drop_ndp
ndp_fields == <<"ipv6_gua", "ipv6_ula", "ipv6_lla">>

\* The lines of chain instances_drop_ndp: for every record and every field
\* of ip_address_fields it has '@nh,384,128 0x{ip_hex} counter ether saddr
\* {mac_address} counter return{comment}', then the drop.
ndp_rules(instances) ==
    LET macs == items(instances, 1)
    IN Written([k \in 1..Len(macs) |->
                  Written([j \in 1..Len(ndp_fields) |->
                             IF instances[macs[k]][ndp_fields[j]] # None
                             THEN <<[match |-> "@nh", offset |-> 384, len |-> 128,
                                     ip_hex |-> ExplodedHex(ip_address_parse(
                                                   instances[macs[k]][ndp_fields[j]])),
                                     mac_address |-> macs[k], verdict |-> "return",
                                     comment |-> instances[macs[k]]["name"]]>>
                             ELSE <<>>])])
       \o <<Lockdown>>

\* count of save_instances_nftables: 1 for every line with a verdict.
nftables_count(instances) ==
    Cardinality({m \in DOMAIN instances : instances[m]["ipv4"] # None}) + 1
    + Cardinality({x \in (DOMAIN instances) \X {"ipv6_gua", "ipv6_ula", "ipv6_lla"} :
                     instances[x[1]][x[2]] # None}) + 1

\* The addresses collected for the set of one key and address type. The
\* order of the elements and their repetitions are not modelled.
set_elements(instances, address_sets, key, address_type) ==
    LET field_of == [v4 |-> {"ipv4"}, v6 |-> {"ipv6_gua", "ipv6_ula"}, g6 |-> {"ipv6_gua"},
                     u6 |-> {"ipv6_ula"}, l6 |-> {"ipv6_lla"}]
    IN {instances[x[1]][x[2]] :
          x \in {y \in (DOMAIN instances) \X field_of[address_type] :
                   /\ instances[y[1]][y[2]] # None
                   /\ key \in address_maps_of(instances[y[1]]["name"], address_sets)}}

\* save_instances_nftables(file_path, instances): what it writes to the
\* "_chains" file and to the "_sets" file.
save_instances_nftables(instances, address_sets) ==
    [count |-> nftables_count(instances),
     count_sets |-> 5 * Cardinality({<<>>} \cup address_map_names(address_sets)),
     chains |-> [instances_drop_arp |-> arp_rules(instances),
                 instances_drop_ndp |-> ndp_rules(instances)],
     sets |-> [sets |->
                 [key \in {<<>>} \cup address_map_names(address_sets) |->
                     [address_type \in {"v4", "v6", "g6", "u6", "l6"} |->
                         set_elements(instances, address_sets, key, address_type)]]]]

\* Mutant: the flag file is left in place.
ConsumeFlag_Keep(file) == file

\* os.remove(updated_path)
ConsumeFlag(file) == [file EXCEPT !.updated = FALSE]

\* Mutant: --force does not bypass the check of the flag file.
NothingToDo_Forced(file, is_forced) == ~file.updated

\* "Checked whether updated and wasn't -- no need to process"
NothingToDo(file, is_forced) == ~file.updated /\ ~is_forced

\* instances-process.py's main under the lock, for the command line a
\* (is_forced) and the environment (domain, address_sets): the files after the
\* run and the exit status.
process_main(file, a) ==
    IF NothingToDo(file, a.is_forced) THEN [file |-> file, exit_code |-> 10]
    ELSE LET consumed == IF file.updated THEN ConsumeFlag(file) ELSE file
         IN IF consumed.json_exists /\ consumed.corrupt
            THEN \* "Error reading JSON file", sys.exit(1) in load_instances_json
                 [file |-> consumed, exit_code |-> 1]
            ELSE LET instances == IF consumed.json_exists THEN consumed.json ELSE <<>>
                     nftables == save_instances_nftables(instances, a.address_sets)
                 IN [file |-> [consumed EXCEPT
                                  !.hosts = save_instances_hosts(@, instances, a.domain),
                                  !.nftables_chains = nftables.chains,
                                  !.nftables_sets = nftables.sets],
                     exit_code |-> 0]

\* ----------------------------------------------------------------- state
VARIABLES
    json_exists,    \* the registry file exists
    json,           \* the dict stored in the registry file (<<>> while it does not exist)
    corrupt,        \* the registry file exists and json.load cannot read it
    updated,        \* the ".updated" flag file exists
    hosts,          \* the ".hosts" file, [lines |-> its lines], None while it does not exist
    nftables_chains,\* the ".nftables_chains" file, the rules of its two chains, or None
    nftables_sets,  \* the ".nftables_sets" file, [sets |-> its sets by key and type], or None
    pc,             \* "idle", or "exited" right after an invocation has ended
    args,           \* the arguments and environment of the invocation that ended
    before,         \* the files as that invocation found them
    mac_address,    \* mac_address of main at its exit (<<>> for None)
    changes_made,   \* changes_made of main: what update_instance returned
    exit_code,      \* the status the invocation exited with
    acquired,       \* the invocation went through lock.acquire()
    last_event,     \* history: "generation" when the last of all non-forced runs of
                    \* the generator and all saves of the registry that ended was a
                    \* run of the generator, "commit" when it was a save, else "none"
    lock,           \* the process that holds the FileLock of the ".lock" file, 0 for none
    proc            \* the invocations that run side by side, each at its step

vars == <<json_exists, json, corrupt, updated, hosts, nftables_chains, nftables_sets,
          pc, args, before, mac_address, changes_made, exit_code, acquired, last_event,
          lock, proc>>

\* The files of one registry instance (one INSTANCES_BASE_PATH and _ID).
Files == [json_exists |-> json_exists, json |-> json, corrupt |-> corrupt,
          updated |-> updated, hosts |-> hosts, nftables_chains |-> nftables_chains,
          nftables_sets |-> nftables_sets]

\* Mutant: the registry is saved and the flag file touched after every update.
Saved_Always(file, r) ==
    [file EXCEPT !.json_exists = TRUE, !.json = r.instances, !.updated = TRUE]

\* "Save if changes were made": the files after save_instances_json and
\* pathlib.Path(updated_path).touch(), r being the dict after update_instance
\* and what it returned.
Saved(file, r) ==
    IF r.updated
    THEN [file EXCEPT !.json_exists = TRUE, !.json = r.instances, !.updated = TRUE]
    ELSE file

\* The part of instances-update.py's main under the lock: load, resolve the
\* MAC, update and save. mac_address is <<>> for --initialize; results is the
\* output of "ip" for --initialize and None otherwise.
Locked(file, results, mac_arg, ip_address, hostname) ==
    LET loaded == load_instances_json(results, file)
        mac == IF mac_arg = <<>> THEN loaded.mac ELSE mac_arg
    IN IF file.json_exists /\ file.corrupt
       THEN \* "Error reading JSON file", sys.exit(1) in load_instances_json
            [file |-> file, mac_address |-> mac_arg, changes_made |-> FALSE, exit_code |-> 1,
             acquired |-> TRUE]
       ELSE IF mac = <<>> \/ ~mac_address_re(mac)
       THEN \* "Couldn't get MAC address for interface", "Invalid MAC address for
            \* interface": sys.exit(1)
            [file |-> file, mac_address |-> mac, changes_made |-> FALSE, exit_code |-> 1,
             acquired |-> TRUE]
       ELSE LET r == update_instance(loaded.instances, mac, ip_address, hostname)
            IN IF r.raised
               THEN \* the exception passes through "finally" and ends the script
                    [file |-> file, mac_address |-> mac, changes_made |-> FALSE,
                     exit_code |-> 1, acquired |-> TRUE]
               ELSE IF r.updated
               THEN [file |-> Saved(file, r),
                     mac_address |-> mac, changes_made |-> TRUE, exit_code |-> 0,
                     acquired |-> TRUE]
               ELSE [file |-> Saved(file, r), mac_address |-> mac, changes_made |-> FALSE,
                     exit_code |-> 0, acquired |-> TRUE]

\* Mutant: an action that is not known is handled as a change of the registry.
Ignore_Commit(file, a) ==
    [file |-> [file EXCEPT !.json_exists = TRUE, !.updated = TRUE],
     mac_address |-> a.mac_address, changes_made |-> TRUE, exit_code |-> 0,
     acquired |-> TRUE]

\* "case _": any other action, of dnsmasq or not, ends the script with
\* sys.exit(0) before the validation, the paths and the lock.
Ignore(file, a) ==
    [file |-> file, mac_address |-> a.mac_address, changes_made |-> FALSE,
     exit_code |-> 0, acquired |-> FALSE]

\* Mutant: an argument that does not match is dropped and the rest of the
\* command line is applied.
Rejected_Applied(file, mac) ==
    [file |-> [file EXCEPT !.json_exists = TRUE, !.updated = TRUE],
     mac_address |-> mac, changes_made |-> TRUE, exit_code |-> 1, acquired |-> TRUE]

\* "Invalid IP address", "Invalid MAC address", "Invalid interface name",
\* "Invalid hostname": the script prints the message and ends with
\* sys.exit(1), before the paths and the lock.
Rejected(file, mac) ==
    [file |-> file, mac_address |-> mac, changes_made |-> FALSE, exit_code |-> 1,
     acquired |-> FALSE]

\* Mutant: an IPv6 lease without DNSMASQ_MAC is applied to the MAC address of
\* the command line.
Event_PositionalMac(a) ==
    IF a.action \in {"add", "old"}
    THEN LET ip_address == ip_address_parse(a.ip_address)
         IN [results |-> None,
             mac |-> IF ip_address.t = "IPv6Address" /\ a.DNSMASQ_MAC # <<>>
                     THEN a.DNSMASQ_MAC ELSE a.mac_address,
             ip_address |-> ip_address,
             hostname |-> a.hostname]
    ELSE IF a.action = "--initialize"
    THEN [results |-> a.ip_output, mac |-> <<>>, ip_address |-> None,
          hostname |-> a.ip_address]
    ELSE IF a.action = "--rename"
    THEN [results |-> None, mac |-> a.mac_address, ip_address |-> None,
          hostname |-> a.ip_address]
    ELSE [results |-> None, mac |-> a.mac_address, ip_address |-> None,
          hostname |-> NoHostname]

\* The event main hands to the part under the lock: the output of "ip"
\* (--initialize only), the MAC address (<<>> when it is to be that of the
\* interface), the address and the name.
Event(a) ==
    IF a.action \in {"add", "old"}
    THEN LET ip_address == ip_address_parse(a.ip_address)
         IN [results |-> None,
             mac |-> IF ip_address.t = "IPv6Address" THEN a.DNSMASQ_MAC ELSE a.mac_address,
             ip_address |-> ip_address,
             hostname |-> a.hostname]
    ELSE IF a.action = "--initialize"
    THEN [results |-> a.ip_output, mac |-> <<>>, ip_address |-> None,
          hostname |-> a.ip_address]
    ELSE IF a.action = "--rename"
    THEN [results |-> None, mac |-> a.mac_address, ip_address |-> None,
          hostname |-> a.ip_address]
    ELSE [results |-> None, mac |-> a.mac_address, ip_address |-> None,
          hostname |-> NoHostname]

\* "Roughly validate mac_address, hostname, interface_name"
ArgsMatch(a, e) ==
    /\ e.mac # <<>> => mac_address_re(e.mac)
    /\ a.action = "--initialize" => interface_re(a.mac_address)
    /\ e.hostname # NoHostname => hostname_re(e.hostname)

\* How main goes from the command line to the lock: "ignore" (case _),
\* "reject" (an argument is not valid), "nomac" (an IPv6 lease without
\* DNSMASQ_MAC, sys.exit(0)) or "lock".
Boundary(a) ==
    IF a.action \notin {"add", "old", "--initialize", "--rename", "--remove"} THEN "ignore"
    ELSE IF a.action \in {"add", "old"} /\ ~ip_address_valid(a.ip_address) THEN "reject"
    ELSE IF a.action \in {"add", "old"} /\ Event(a).mac = <<>> THEN "nomac"
    ELSE IF ~ArgsMatch(a, Event(a)) THEN "reject"
    ELSE "lock"

\* instances-update.py's main for the command line a (action, mac_address,
\* ip_address, hostname), the environment variable DNSMASQ_MAC (<<>> when not
\* set) and the output of "ip".
main(file, a) ==
    LET b == Boundary(a)
    IN IF b = "ignore" THEN Ignore(file, a)
       ELSE IF b = "reject"
       THEN Rejected(file, IF a.action \in {"add", "old"} /\ ~ip_address_valid(a.ip_address)
                           THEN a.mac_address ELSE Event(a).mac)
       ELSE IF b = "nomac"
       THEN [file |-> file, mac_address |-> <<>>, changes_made |-> FALSE,
             exit_code |-> 0, acquired |-> FALSE]
       ELSE LET e == Event(a)
            IN Locked(file, e.results, e.mac, e.ip_address, e.hostname)

\* One invocation of instances-update.py with the command line and
\* environment a, from start to exit.
Run(a) ==
    \E out \in {main(Files, a)} :
        /\ json_exists' = out.file.json_exists
        /\ json' = out.file.json
        /\ updated' = out.file.updated
        /\ UNCHANGED <<corrupt, hosts, nftables_chains, nftables_sets, last_event,
                       lock, proc>>
        /\ mac_address' = out.mac_address
        /\ changes_made' = out.changes_made
        /\ exit_code' = out.exit_code
        /\ acquired' = out.acquired
        /\ pc' = "exited"
        /\ args' = a
        /\ before' = Files

NoArgs == [action |-> "none"]

\* The processes that run the scripts side by side.
Procs == 1..NumProcs

\* A process that runs no script: the status its last invocation exited
\* with, whether that invocation held the lock, and whether it read or wrote
\* a file of the registry instance.
Exited(status, held, accessed) ==
    [pc |-> "exited", prog |-> "none", a |-> NoArgs, instances |-> <<>>, mac |-> <<>>,
     updated |-> FALSE, exit_code |-> status, held |-> held, accessed |-> accessed]

Init ==
    /\ json_exists = FALSE
    /\ json = <<>>
    /\ corrupt = FALSE
    /\ updated = FALSE
    /\ hosts = None
    /\ nftables_chains = None
    /\ nftables_sets = None
    /\ last_event = "none"
    /\ lock = 0
    /\ proc = [p \in Procs |-> Exited(0, FALSE, FALSE)]
    /\ pc = "idle"
    /\ args = NoArgs
    /\ before = None
    /\ mac_address = <<>>
    /\ changes_made = FALSE
    /\ exit_code = 0
    /\ acquired = FALSE

\* dnsmasq runs the script when it creates a lease: add <mac> <ip> [<hostname>],
\* with DNSMASQ_MAC set for IPv6 leases when the MAC of the client is known.
Add ==
    /\ pc = "idle"
    /\ \E ip \in IPTexts, hostname \in Names \cup {NoHostname}, mac \in Macs :
          Run([action |-> "add",
               mac_address |-> IF ip.t = "v4" THEN mac ELSE AllMacs[1],
               ip_address |-> ip,
               hostname |-> hostname,
               DNSMASQ_MAC |-> IF ip.t = "v4" THEN <<>> ELSE mac])

\* ... and when a lease is renewed: old <mac> <ip> [<hostname>].
Old ==
    /\ pc = "idle"
    /\ \E ip \in IPv4Texts, mac \in Macs :
          Run([action |-> "old", mac_address |-> mac, ip_address |-> ip,
               hostname |-> NoHostname, DNSMASQ_MAC |-> <<>>])

\* An IPv6 lease of a client whose MAC dnsmasq does not know.
AddUnknownMac ==
    /\ pc = "idle"
    /\ \E ip \in IPv6Texts :
          Run([action |-> "add", mac_address |-> AllMacs[1], ip_address |-> ip,
               hostname |-> NoHostname, DNSMASQ_MAC |-> <<>>])

\* --initialize <interface> <name>
Initialize ==
    /\ pc = "idle"
    /\ \E results \in IpOutputs, hostname \in Names :
          Run([action |-> "--initialize", mac_address |-> "br0", ip_address |-> hostname,
               ip_output |-> results])

\* --rename <mac> <name>
Rename ==
    /\ pc = "idle"
    /\ \E mac \in Macs, hostname \in Names :
          Run([action |-> "--rename", mac_address |-> mac, ip_address |-> hostname])

\* --remove <mac>
Remove ==
    /\ pc = "idle"
    /\ \E mac \in Macs : Run([action |-> "--remove", mac_address |-> mac])

\* Any other action of dnsmasq, such as del <mac> <ip> when a lease expires.
Ignored ==
    /\ pc = "idle"
    /\ \E mac \in Macs :
          Run([action |-> "del", mac_address |-> mac,
               ip_address |-> [t |-> "v4", o |-> <<111, 112, 113, 114>>]])

\* One invocation of instances-process.py, from start to exit.
Process ==
    /\ pc = "idle"
    /\ \E is_forced \in BOOLEAN, domain \in Domains, address_sets \in AddressSets :
          LET a == [action |-> "process", is_forced |-> is_forced, domain |-> domain,
                    address_sets |-> address_sets]
          IN \E out \in {process_main(Files, a)} :
                /\ updated' = out.file.updated
                /\ hosts' = out.file.hosts
                /\ nftables_chains' = out.file.nftables_chains
                /\ nftables_sets' = out.file.nftables_sets
                /\ exit_code' = out.exit_code
                /\ pc' = "exited"
                /\ args' = a
                /\ before' = Files
                /\ mac_address' = <<>>
                /\ changes_made' = FALSE
                /\ acquired' = TRUE
                /\ UNCHANGED <<json_exists, json, corrupt, last_event, lock, proc>>

\* The invocation is over: its arguments and results are gone.
Return ==
    /\ pc = "exited"
    /\ pc' = "idle"
    /\ args' = NoArgs
    /\ before' = None
    /\ mac_address' = <<>>
    /\ changes_made' = FALSE
    /\ exit_code' = 0
    /\ acquired' = FALSE
    /\ last_event' = IF args.action = "process"
                     THEN IF args.is_forced THEN last_event ELSE "generation"
                     ELSE IF changes_made THEN "commit" ELSE last_event
    /\ UNCHANGED <<json_exists, json, corrupt, updated, hosts, nftables_chains,
                   nftables_sets, lock, proc>>

Next ==
    \/ Add
    \/ Old
    \/ AddUnknownMac
    \/ Initialize
    \/ Rename
    \/ Remove
    \/ Ignored
    \/ Return

Spec == Init /\ [][Next]_vars

\* ------------------------------------ the reconciler and the generator
\* A lease of the IPv4 address 111.112.113.114 or, for the second MAC, of a
\* global IPv6 address.
Lease ==
    /\ pc = "idle"
    /\ \E ip \in {[t |-> "v4", o |-> <<111, 112, 113, 114>>], GuaText},
          hostname \in {"radish", NoHostname}, mac \in Macs :
          /\ ip.t = "v6" => mac = AllMacs[2] /\ hostname = NoHostname
          /\ Run([action |-> "add",
               mac_address |-> IF ip.t = "v4" THEN mac ELSE AllMacs[1],
               ip_address |-> ip,
               hostname |-> hostname,
               DNSMASQ_MAC |-> IF ip.t = "v4" THEN <<>> ELSE mac])

\* A lease of ::1, an IPv6 address whose integer is below 2^32.
LeaseLoopback ==
    /\ pc = "idle"
    /\ \E mac \in Macs :
          Run([action |-> "add", mac_address |-> AllMacs[1], ip_address |-> LoopbackText,
               hostname |-> NoHostname, DNSMASQ_MAC |-> mac])

\* Command lines with an argument that is not what it should be.
Malformed ==
    /\ pc = "idle"
    /\ \E a \in {[action |-> "add", mac_address |-> BadMac,
                   ip_address |-> [t |-> "v4", o |-> <<111, 112, 113, 114>>],
                   hostname |-> "radish", DNSMASQ_MAC |-> <<>>],
                  [action |-> "add", mac_address |-> AllMacs[1], ip_address |-> BadIPText,
                   hostname |-> "radish", DNSMASQ_MAC |-> <<>>],
                  [action |-> "old", mac_address |-> AllMacs[1],
                   ip_address |-> [t |-> "v4", o |-> <<111, 112, 113, 114>>],
                   hostname |-> BadName, DNSMASQ_MAC |-> <<>>],
                  [action |-> "add", mac_address |-> AllMacs[1], ip_address |-> GuaText,
                   hostname |-> NoHostname, DNSMASQ_MAC |-> BadMac],
                  [action |-> "--rename", mac_address |-> AllMacs[1], ip_address |-> BadName],
                  [action |-> "--remove", mac_address |-> BadMac],
                  [action |-> "--initialize", mac_address |-> BadInterface,
                   ip_address |-> "radish", ip_output |-> None]} : Run(a)

\* --initialize <interface> <name> for an interface "ip" prints no MAC
\* address for, or one that is not a MAC address.
InitializeFails ==
    /\ pc = "idle"
    /\ \E mac \in {<<>>, <<BadMac>>} :
          Run([action |-> "--initialize", mac_address |-> "br0", ip_address |-> "radish",
               ip_output |-> [mac |-> mac, inet |-> <<>>, inet6 |-> <<>>]])

\* --remove <mac>, of the first MAC.
Forget ==
    /\ pc = "idle"
    /\ Run([action |-> "--remove", mac_address |-> AllMacs[1]])

\* The registry file is damaged from outside the scripts (an interrupted
\* write, an edit by hand): json.load will fail on it.
Damage ==
    /\ pc = "idle"
    /\ json_exists /\ ~corrupt
    /\ corrupt' = TRUE
    /\ UNCHANGED <<json_exists, json, updated, hosts, nftables_chains, nftables_sets,
                   pc, args, before, mac_address, changes_made, exit_code, acquired,
                   last_event, lock, proc>>

NextGen ==
    \/ Lease
    \/ LeaseLoopback
    \/ Malformed
    \/ InitializeFails
    \/ Forget
    \/ Process
    \/ Damage
    \/ Return

SpecGen == Init /\ [][NextGen]_vars

\* ------------------------------- invocations side by side, step by step
file_vars == <<json_exists, json, corrupt, updated, hosts, nftables_chains, nftables_sets>>
seq_vars == <<pc, args, before, mac_address, changes_made, exit_code, acquired, last_event>>

\* The command lines of instances-update.py that run side by side.
LockEvents ==
    {[action |-> "add", mac_address |-> AllMacs[1],
      ip_address |-> [t |-> "v4", o |-> <<111, 112, 113, 114>>],
      hostname |-> "radish", DNSMASQ_MAC |-> <<>>],
     [action |-> "add", mac_address |-> AllMacs[1], ip_address |-> LoopbackText,
      hostname |-> NoHostname, DNSMASQ_MAC |-> AllMacs[1]],
     [action |-> "del", mac_address |-> AllMacs[1],
      ip_address |-> [t |-> "v4", o |-> <<111, 112, 113, 114>>]],
     [action |-> "--remove", mac_address |-> BadMac],
     [action |-> "--remove", mac_address |-> AllMacs[1]],
     [action |-> "--initialize", mac_address |-> "br0", ip_address |-> "radish",
      ip_output |-> [mac |-> <<>>, inet |-> <<>>, inet6 |-> <<>>]]}

\* What a write does: "none" when it succeeds; "write" when IOError is
\* raised while the file, which open(file_path, 'w') emptied, is written:
\* the file is left cut short.
Faults == {"none", "write"}
\* A file that open(file_path, 'w') emptied and that was not written to its end.
Truncated == [t |-> "truncated"]

\* A process at the start of a script.
Started(prog, a) ==
    [pc |-> "acquire", prog |-> prog, a |-> a, instances |-> <<>>, mac |-> <<>>,
     updated |-> FALSE, exit_code |-> 0, held |-> FALSE, accessed |-> FALSE]

\* sys.exit(status), or an exception, inside "try": what is left is "finally".
Leaving(r, status) ==
    [r EXCEPT !.pc = "release", !.exit_code = status, !.accessed = TRUE,
              !.instances = <<>>, !.mac = <<>>, !.updated = FALSE]

\* Mutant: the lock is advisory and the scripts do not wait for it.
CanAcquire_Always(holder) == TRUE

\* lock.acquire() returns: no other process holds the lock of the file.
CanAcquire(holder) == holder = 0

\* Mutant: FileLock(lock_path) without timeout: acquire waits for ever.
TimesOut_Never(holder) == FALSE

\* lock.acquire() raises Timeout: the lock was held for the 10 seconds of
\* FileLock(lock_path, timeout=10).
TimesOut(holder) == holder # 0

\* Mutant: lock.release() at the end of "try" instead of in "finally".
lock_release_AtEnd(holder, status) == IF status = 0 THEN 0 ELSE holder

\* lock.release() in "finally": the holder of the lock after it.
lock_release(holder, status) == 0

\* instances-update.py from its start to lock.acquire().
UpdateStart(p) ==
    /\ proc[p].pc = "exited"
    /\ \E a \in LockEvents :
          LET b == Boundary(a)
          IN proc' = [proc EXCEPT ![p] =
                         IF b = "lock" THEN Started("update", a)
                         ELSE Exited(IF b = "reject" THEN 1 ELSE 0, FALSE, FALSE)]
    /\ UNCHANGED <<file_vars, lock, seq_vars>>

\* instances-process.py from its start to lock.acquire().
ProcessStart(p) ==
    /\ proc[p].pc = "exited"
    /\ \E is_forced \in BOOLEAN :
          proc' = [proc EXCEPT ![p] =
                      Started("process", [action |-> "process", is_forced |-> is_forced,
                                          domain |-> ".instance.internal",
                                          address_sets |-> <<"host">>])]
    /\ UNCHANGED <<file_vars, lock, seq_vars>>

\* lock.acquire() returns.
Acquire(p) ==
    /\ proc[p].pc = "acquire"
    /\ CanAcquire(lock)
    /\ lock' = p
    /\ proc' = [proc EXCEPT ![p].pc = IF proc[p].prog = "update" THEN "load" ELSE "check",
                            ![p].held = TRUE]
    /\ UNCHANGED <<file_vars, seq_vars>>

\* lock.acquire() raises Timeout, outside "try": the script ends with a
\* traceback and status 1.
Timeout(p) ==
    /\ proc[p].pc = "acquire"
    /\ TimesOut(lock)
    /\ proc' = [proc EXCEPT ![p] = Exited(1, FALSE, FALSE)]
    /\ UNCHANGED <<file_vars, lock, seq_vars>>

\* instances-update.py: load_instances_json and the MAC address.
UpdateLoad(p) ==
    /\ proc[p].pc = "load"
    /\ LET e == Event(proc[p].a)
           loaded == load_instances_json(e.results, Files)
           mac == IF e.mac = <<>> THEN loaded.mac ELSE e.mac
       IN proc' = [proc EXCEPT ![p] =
                      IF json_exists /\ corrupt THEN Leaving(@, 1)
                      ELSE IF mac = <<>> \/ ~mac_address_re(mac) THEN Leaving(@, 1)
                      ELSE [@ EXCEPT !.pc = "update", !.instances = loaded.instances,
                                     !.mac = mac, !.accessed = TRUE]]
    /\ UNCHANGED <<file_vars, lock, seq_vars>>

\* instances-update.py: update_instance, on the dict in memory.
UpdateInstance(p) ==
    /\ proc[p].pc = "update"
    /\ LET e == Event(proc[p].a)
           r == update_instance(proc[p].instances, proc[p].mac, e.ip_address, e.hostname)
       IN proc' = [proc EXCEPT ![p] =
                      IF r.raised THEN Leaving(@, 1)
                      ELSE IF ~r.updated THEN Leaving(@, 0)
                      ELSE [@ EXCEPT !.pc = "save", !.instances = r.instances,
                                     !.updated = TRUE]]
    /\ UNCHANGED <<file_vars, lock, seq_vars>>

\* instances-update.py: save_instances_json.
UpdateSave(p) ==
    /\ proc[p].pc = "save"
    /\ \E fault \in Faults :
          /\ json_exists' = TRUE
          /\ json' = IF fault = "none" THEN proc[p].instances ELSE json
          /\ corrupt' = (fault = "write")
          /\ proc' = [proc EXCEPT ![p] =
                         IF fault = "none" THEN [@ EXCEPT !.pc = "touch"]
                         ELSE Leaving(@, 1)]
    /\ UNCHANGED <<updated, hosts, nftables_chains, nftables_sets, lock, seq_vars>>

\* instances-update.py: pathlib.Path(updated_path).touch(), the end of "try".
UpdateTouch(p) ==
    /\ proc[p].pc = "touch"
    /\ updated' = TRUE
    /\ proc' = [proc EXCEPT ![p] = Leaving(@, 0)]
    /\ UNCHANGED <<json_exists, json, corrupt, hosts, nftables_chains, nftables_sets, lock,
                   seq_vars>>

\* instances-process.py: the check and the removal of the flag file.
ProcessCheck(p) ==
    /\ proc[p].pc = "check"
    /\ updated' = IF NothingToDo(Files, proc[p].a.is_forced) THEN updated
                  ELSE IF updated THEN ConsumeFlag(Files).updated ELSE updated
    /\ proc' = [proc EXCEPT ![p] =
                   IF NothingToDo(Files, proc[p].a.is_forced) THEN Leaving(@, 10)
                   ELSE [@ EXCEPT !.pc = "gload", !.accessed = TRUE]]
    /\ UNCHANGED <<json_exists, json, corrupt, hosts, nftables_chains, nftables_sets, lock,
                   seq_vars>>

\* instances-process.py: load_instances_json.
ProcessLoad(p) ==
    /\ proc[p].pc = "gload"
    /\ proc' = [proc EXCEPT ![p] =
                   IF json_exists /\ corrupt THEN Leaving(@, 1)
                   ELSE [@ EXCEPT !.pc = "hosts",
                                  !.instances = IF json_exists THEN json ELSE <<>>]]
    /\ UNCHANGED <<file_vars, lock, seq_vars>>

\* instances-process.py: save_instances_hosts.
ProcessHosts(p) ==
    /\ proc[p].pc = "hosts"
    /\ \E fault \in Faults :
          /\ hosts' = IF ~HostsWritten(proc[p].a.domain) THEN hosts
                      ELSE IF fault = "write" THEN Truncated
                      ELSE save_instances_hosts(hosts, proc[p].instances, proc[p].a.domain)
          /\ proc' = [proc EXCEPT ![p] =
                         IF ~HostsWritten(proc[p].a.domain) \/ fault = "none"
                         THEN [@ EXCEPT !.pc = "chains"]
                         ELSE Leaving(@, 1)]
    /\ UNCHANGED <<json_exists, json, corrupt, updated, nftables_chains, nftables_sets, lock,
                   seq_vars>>

\* instances-process.py: save_instances_nftables, the "_chains" file.
ProcessChains(p) ==
    /\ proc[p].pc = "chains"
    /\ \E fault \in Faults :
          /\ nftables_chains' =
                IF fault = "write" THEN Truncated
                ELSE save_instances_nftables(proc[p].instances, proc[p].a.address_sets).chains
          /\ proc' = [proc EXCEPT ![p] =
                         IF fault = "none" THEN [@ EXCEPT !.pc = "sets"] ELSE Leaving(@, 1)]
    /\ UNCHANGED <<json_exists, json, corrupt, updated, hosts, nftables_sets, lock, seq_vars>>

\* instances-process.py: save_instances_nftables, the "_sets" file, the end
\* of "try".
ProcessSets(p) ==
    /\ proc[p].pc = "sets"
    /\ \E fault \in Faults :
          /\ nftables_sets' =
                IF fault = "write" THEN Truncated
                ELSE save_instances_nftables(proc[p].instances, proc[p].a.address_sets).sets
          /\ proc' = [proc EXCEPT ![p] = Leaving(@, IF fault = "none" THEN 0 ELSE 1)]
    /\ UNCHANGED <<json_exists, json, corrupt, updated, hosts, nftables_chains, lock,
                   seq_vars>>

\* "finally: lock.release()", and the end of the script.
Release(p) ==
    /\ proc[p].pc = "release"
    /\ lock' = lock_release(lock, proc[p].exit_code)
    /\ proc' = [proc EXCEPT ![p] = Exited(proc[p].exit_code, TRUE, proc[p].accessed)]
    /\ UNCHANGED <<file_vars, seq_vars>>

\* The steps of a process that waits for the lock.
Wait(p) == Acquire(p) \/ Timeout(p)
\* The steps of a process inside "try ... finally".
Work(p) ==
    \/ UpdateLoad(p) \/ UpdateInstance(p) \/ UpdateSave(p) \/ UpdateTouch(p)
    \/ ProcessCheck(p) \/ ProcessLoad(p) \/ ProcessHosts(p) \/ ProcessChains(p)
    \/ ProcessSets(p)
    \/ Release(p)

NextLock ==
    \E p \in Procs :
        \/ UpdateStart(p)
        \/ ProcessStart(p)
        \/ Acquire(p)
        \/ Timeout(p)
        \/ UpdateLoad(p)
        \/ UpdateInstance(p)
        \/ UpdateSave(p)
        \/ UpdateTouch(p)
        \/ ProcessCheck(p)
        \/ ProcessLoad(p)
        \/ ProcessHosts(p)
        \/ ProcessChains(p)
        \/ ProcessSets(p)
        \/ Release(p)

SpecLock == Init /\ [][NextLock]_vars

\* Every process that runs a script takes its next step: it is scheduled,
\* and the wait for the lock ends within the timeout, one way or the other.
SpecLockFair ==
    SpecLock /\ \A p \in Procs : WF_vars(Wait(p)) /\ WF_vars(Work(p))

\* -------------------------------- the generator when a write fails
\* The write of a run of the generator during which IOError is raised:
\* "none", or the file being written ("Error writing hosts file", "Error
\* writing nftables file", "Error writing nftables_sets file").
Failing == {"none", "hosts", "chains", "sets"}

\* The three files after a run in which the write of "failing" raised
\* IOError: the files main wrote before are new, the one being written is
\* cut short, and the ones main did not get to are as they were.
WriteFails(old, new, failing) ==
    IF failing = "hosts" THEN [old EXCEPT !.hosts = Truncated]
    ELSE IF failing = "chains"
    THEN [old EXCEPT !.hosts = new.hosts, !.nftables_chains = Truncated]
    ELSE [old EXCEPT !.hosts = new.hosts, !.nftables_chains = new.nftables_chains,
                     !.nftables_sets = Truncated]

\* instances-process.py's main under the lock when the write of "failing"
\* raises IOError: sys.exit(1) in the "except IOError" of the save function.
\* A run that does not get to that write is the run of process_main.
process_main_failing(file, a, failing) ==
    LET out == process_main(file, a)
    IN IF \/ failing = "none"
          \/ out.exit_code # 0
          \/ failing = "hosts" /\ ~HostsWritten(a.domain)
       THEN out
       ELSE [file |-> WriteFails([file EXCEPT !.updated = FALSE], out.file, failing),
             exit_code |-> 1]

\* instances-process.py [--force] with the default environment, the whole
\* run, in which a write may fail.
Generate ==
    /\ pc = "idle"
    /\ \E is_forced \in BOOLEAN, failing \in Failing :
          LET a == [action |-> "process", is_forced |-> is_forced,
                    domain |-> ".instance.internal", address_sets |-> <<"host">>]
          IN \E out \in {process_main_failing(Files, a, failing)} :
                /\ updated' = out.file.updated
                /\ hosts' = out.file.hosts
                /\ nftables_chains' = out.file.nftables_chains
                /\ nftables_sets' = out.file.nftables_sets
                /\ exit_code' = out.exit_code
                /\ pc' = "exited"
                /\ args' = a
                /\ before' = Files
                /\ mac_address' = <<>>
                /\ changes_made' = FALSE
                /\ acquired' = TRUE
                /\ UNCHANGED <<json_exists, json, corrupt, last_event, lock, proc>>

NextFault ==
    \/ Lease
    \/ Forget
    \/ Damage
    \/ Generate
    \/ Return

SpecFault == Init /\ [][NextFault]_vars

\* ------------------------------- the generator on the registries it reads
\* The names of the records: none, a name, and a name with a hyphen.
RecordNames == {"", "radish", "web-1"}

\* The records the reconciler keeps for a MAC address: a name, at most one
\* address of each class, and the link-local address of its creation.
RecordsOf(mac) ==
    {[f \in Fields |->
         IF f = "name" THEN x[1]
         ELSE IF f = "ipv4" THEN x[2]
         ELSE IF f = "ipv6_gua" THEN x[3]
         ELSE IF f = "ipv6_ula" THEN x[4]
         ELSE ipv6_lla_of(mac)] :
        x \in RecordNames \X (IPv4Texts \cup {None}) \X {None, GuaText, Gua2Text}
              \X {None, UlaText}}

\* The registries of the records of up to NumMacs MAC addresses in which,
\* as update_instance keeps it, no name and no address is held twice.
Registries ==
    {instances \in UNION {[D -> UNION {RecordsOf(mac) : mac \in Macs}] : D \in SUBSET Macs} :
        /\ \A mac \in DOMAIN instances : instances[mac] \in RecordsOf(mac)
        /\ \A m1, m2 \in DOMAIN instances :
              m1 # m2 =>
                 /\ instances[m1]["name"] = "" \/ instances[m1]["name"] # instances[m2]["name"]
                 /\ \A f \in ip_address_fields :
                       instances[m1][f] = None \/ instances[m1][f] # instances[m2][f]}

\* The values of INSTANCES_ADDRESS_SETS, split at the commas: the default; a
\* name of the registry and a name that is not a hostname; and a name with
\* a hyphen, given twice, an empty name and a name of the registry.
GroupLists == {<<"host">>, <<"radish", "9lives">>, <<"web-1", "", "radish", "web-1">>}

\* The registry file as the reconciler left it: a registry and the flag file.
InitRegistry ==
    /\ json_exists = TRUE
    /\ json \in Registries
    /\ corrupt = FALSE
    /\ updated = TRUE
    /\ hosts = None
    /\ nftables_chains = None
    /\ nftables_sets = None
    /\ last_event = "commit"
    /\ lock = 0
    /\ proc = [p \in Procs |-> Exited(0, FALSE, FALSE)]
    /\ pc = "idle"
    /\ args = NoArgs
    /\ before = None
    /\ mac_address = <<>>
    /\ changes_made = FALSE
    /\ exit_code = 0
    /\ acquired = FALSE

\* instances-process.py [--force] with INSTANCES_ADDRESS_SETS set, the whole
\* run.
ProcessGroups ==
    /\ pc = "idle"
    /\ \E is_forced \in BOOLEAN, address_sets \in GroupLists :
          LET a == [action |-> "process", is_forced |-> is_forced,
                    domain |-> ".instance.internal", address_sets |-> address_sets]
          IN \E out \in {process_main(Files, a)} :
                /\ updated' = out.file.updated
                /\ hosts' = out.file.hosts
                /\ nftables_chains' = out.file.nftables_chains
                /\ nftables_sets' = out.file.nftables_sets
                /\ exit_code' = out.exit_code
                /\ pc' = "exited"
                /\ args' = a
                /\ before' = Files
                /\ mac_address' = <<>>
                /\ changes_made' = FALSE
                /\ acquired' = TRUE
                /\ UNCHANGED <<json_exists, json, corrupt, last_event, lock, proc>>

NextArtifacts ==
    \/ ProcessGroups
    \/ Return

SpecArtifacts == InitRegistry /\ [][NextArtifacts]_vars

\* ------------------------------------- two reconcilers on one registry
\* The command lines of the two invocations of instances-update.py.
PairEvents ==
    {[action |-> "add", mac_address |-> AllMacs[1],
      ip_address |-> [t |-> "v4", o |-> <<111, 112, 113, 114>>],
      hostname |-> "radish", DNSMASQ_MAC |-> <<>>],
     [action |-> "old", mac_address |-> AllMacs[2],
      ip_address |-> [t |-> "v4", o |-> <<111, 112, 113, 114>>],
      hostname |-> NoHostname, DNSMASQ_MAC |-> <<>>],
     [action |-> "add", mac_address |-> AllMacs[1], ip_address |-> GuaText,
      hostname |-> "radish", DNSMASQ_MAC |-> AllMacs[2]],
     [action |-> "--rename", mac_address |-> AllMacs[2], ip_address |-> "radish"],
     [action |-> "--remove", mac_address |-> AllMacs[1]],
     [action |-> "--initialize", mac_address |-> "br0", ip_address |-> "carrot",
      ip_output |-> [mac |-> <<AllMacs[1]>>, inet |-> <<>>, inet6 |-> <<LlaTextEui>>]]}

\* The registries the two invocations find: those of Registries with the
\* names "" and radish and without the second global and the unique-local
\* address.
PairRegistries ==
    {instances \in Registries :
        \A mac \in DOMAIN instances :
            /\ instances[mac]["name"] # "web-1"
            /\ instances[mac]["ipv6_gua"] # Gua2Text
            /\ instances[mac]["ipv6_ula"] = None}

\* Two invocations of instances-update.py have been started, each with a
\* command line of PairEvents, and are at lock.acquire(); the registry file
\* is missing or holds a registry, and the flag file is not there. args and
\* before keep the command lines and the files of this moment.
InitPair ==
    /\ \/ json_exists = FALSE /\ json = <<>>
       \/ json_exists = TRUE /\ json \in PairRegistries
    /\ corrupt = FALSE
    /\ updated = FALSE
    /\ hosts = None
    /\ nftables_chains = None
    /\ nftables_sets = None
    /\ last_event = "none"
    /\ lock = 0
    /\ args \in [Procs -> PairEvents]
    /\ proc = [p \in Procs |-> Started("update", args[p])]
    /\ before = [json_exists |-> json_exists, json |-> json, corrupt |-> FALSE,
                 updated |-> FALSE, hosts |-> None, nftables_chains |-> None,
                 nftables_sets |-> None]
    /\ pc = "idle"
    /\ mac_address = <<>>
    /\ changes_made = FALSE
    /\ exit_code = 0
    /\ acquired = FALSE

NextPair ==
    \E p \in Procs :
        \/ Acquire(p)
        \/ Timeout(p)
        \/ UpdateLoad(p)
        \/ UpdateInstance(p)
        \/ UpdateSave(p)
        \/ UpdateTouch(p)
        \/ Release(p)

SpecPair == InitPair /\ [][NextPair]_vars

\* ================================================================ claims
\* The invocation that just ended was UpsertAddress (add or old) for a known MAC.
IsUpsert == pc = "exited" /\ args.action \in {"add", "old"} /\ mac_address # <<>>
\* ... Rename, Remove, Bootstrap.
IsRename == pc = "exited" /\ args.action = "--rename"
IsRemoveEvent == pc = "exited" /\ args.action = "--remove"
IsBootstrap == pc = "exited" /\ args.action = "--initialize" /\ mac_address # <<>>
\* The label the event carries (the name of Rename and Bootstrap is given as ip_address).
Label == IF args.action \in {"add", "old"} THEN args.hostname ELSE args.ip_address
\* The text stored for the address of an UpsertAddress and the field it goes to.
StoredText == str(ip_address_parse(args.ip_address))
StoredField == FieldOf(ip_address_parse(args.ip_address))

\* C1: name uniqueness: no two records of the registry hold the same non-empty
\* name, in every state reachable by UpsertAddress, Bootstrap, Rename and Remove.
C1_NameUniqueness ==
    \A m1, m2 \in DOMAIN json :
        m1 # m2 /\ json[m1]["name"] # "" => json[m1]["name"] # json[m2]["name"]

\* A Rename or Bootstrap took the name another record held.
C1_Witness ==
    /\ pc = "exited" /\ args.action \in {"--rename", "--initialize"}
    /\ \E m \in DOMAIN before.json \cap DOMAIN json :
          /\ m # mac_address
          /\ before.json[m]["name"] = Label
          /\ json[m]["name"] = ""
          /\ json[mac_address]["name"] = Label

\* C2: address uniqueness: no two records hold the same value in ipv4, nor in
\* ipv6_gua, nor in ipv6_ula, in every reachable state.
C2_AddressUniqueness ==
    \A m1, m2 \in DOMAIN json : \A f \in ip_address_fields :
        m1 # m2 /\ json[m1][f] # None => json[m1][f] # json[m2][f]

\* C3: address eviction: after UpsertAddress{B, X} with X an IPv4, global or
\* unique-local address, B holds X in the matching field, every other record
\* that held X there has the field absent and keeps its name, its ipv6_lla and
\* its other address fields, and changed = true.
C3_AddressEviction ==
    IsUpsert /\ StoredField # "None" =>
        /\ json[mac_address][StoredField] = StoredText
        /\ \A m \in DOMAIN before.json \ {mac_address} :
              before.json[m][StoredField] = StoredText =>
                  /\ m \in DOMAIN json
                  /\ json[m][StoredField] = None
                  /\ \A g \in Fields \ {StoredField} : json[m][g] = before.json[m][g]
                  /\ changes_made

\* C4: rename eviction: after Rename{B, n} of an existing record, B is named n,
\* every other record that held n is unnamed, and nothing else changes; a
\* Rename to B's current name returns changed = false and changes no file.
C4_RenameEviction ==
    IsRename /\ mac_address \in DOMAIN before.json =>
        /\ DOMAIN json = DOMAIN before.json
        /\ json[mac_address]["name"] = Label
        /\ \A m \in DOMAIN json \ {mac_address} :
              json[m]["name"] = IF before.json[m]["name"] = Label THEN ""
                                ELSE before.json[m]["name"]
        /\ \A m \in DOMAIN json : \A f \in Fields \ {"name"} :
              json[m][f] = before.json[m][f]
        /\ before.json[mac_address]["name"] = Label => ~changes_made /\ Files = before

\* A Rename took the name of another record, which had addresses to keep.
C4_Witness ==
    /\ IsRename /\ changes_made
    /\ mac_address \in DOMAIN before.json
    /\ before.json[mac_address]["name"] \notin {"", Label}
    /\ \E m \in DOMAIN before.json \ {mac_address} :
          /\ before.json[m]["name"] = Label
          /\ before.json[m]["ipv4"] # None
          /\ json[m]["name"] = ""

\* C5: first claim wins on creation: a record UpsertAddress creates with a
\* label an existing record holds is unnamed and the holder keeps the name;
\* with a label no record holds, the new record gets it.
C5_FirstClaimWins ==
    IsUpsert /\ mac_address \notin DOMAIN before.json /\ Label # NoHostname =>
        /\ mac_address \in DOMAIN json
        /\ \A m \in DOMAIN before.json : json[m]["name"] = before.json[m]["name"]
        /\ json[mac_address]["name"] =
              IF \E m \in DOMAIN before.json : before.json[m]["name"] = Label
              THEN "" ELSE Label

\* UpsertAddress created a record with a label another record holds.
C5_Witness ==
    /\ IsUpsert /\ mac_address \notin DOMAIN before.json /\ Label # NoHostname
    /\ \E m \in DOMAIN before.json : before.json[m]["name"] = Label
    /\ json[mac_address]["name"] = ""

\* C6: idempotence of UpsertAddress: the same event applied again right after
\* returns changed = false and leaves the registry file as it is, and the
\* flag file as it is, be it still set or already consumed.
C6_UpsertIdempotent ==
    pc = "exited" /\ args.action \in {"add", "old"} =>
        \A u \in {updated, FALSE} :
            LET file == [Files EXCEPT !.updated = u]
                again == main(file, args)
            IN ~again.changes_made /\ again.file = file

\* The first application created a record and evicted an address.
C6_Witness ==
    /\ IsUpsert /\ changes_made /\ StoredField # "None"
    /\ mac_address \notin DOMAIN before.json
    /\ \E m \in DOMAIN before.json : before.json[m][StoredField] = StoredText

\* C7 as stated: the ipv6_lla of a record that stays in the registry is never
\* changed or removed by a later event (UpsertAddress, Bootstrap or Rename).
C7_LlaImmutable ==
    [][\A m \in DOMAIN json \cap DOMAIN json' :
          json'[m]["ipv6_lla"] = json[m]["ipv6_lla"]]_vars

\* C7 as amended: the ipv6_lla of a record that stays in the registry is
\* changed or removed by no event other than a Bootstrap for its own link id.
C7_LlaImmutableButBootstrap ==
    [][\A m \in DOMAIN json \cap DOMAIN json' :
          \/ json'[m]["ipv6_lla"] = json[m]["ipv6_lla"]
          \/ args'.action = "--initialize" /\ mac_address' = m]_vars

\* A link-local address arrived as an update for a record, which kept its ipv6_lla.
C7_Witness ==
    /\ IsUpsert
    /\ is_link_local(ip_address_parse(args.ip_address))
    /\ mac_address \in DOMAIN before.json
    /\ json[mac_address]["ipv6_lla"] = before.json[mac_address]["ipv6_lla"]
    /\ json[mac_address]["ipv6_lla"] # StoredText

\* C8: records are destroyed only by Remove: a link id of the registry stays
\* in it across every invocation but a Remove that names it.
C8_OnlyRemoveDestroys ==
    [][\A m \in DOMAIN json :
          \/ m \in DOMAIN json'
          \/ args'.action = "--remove" /\ mac_address' = m]_vars

\* A record lost an address by eviction, or the lease of a record expired, and
\* the record is still there.
C8_Witness ==
    /\ pc = "exited"
    /\ \/ /\ IsUpsert
          /\ \E m \in DOMAIN before.json \cap DOMAIN json :
                m # mac_address /\ before.json[m]["ipv4"] # None /\ json[m]["ipv4"] = None
       \/ /\ args.action = "del"
          /\ mac_address \in DOMAIN json

\* C9: Remove of an existing record deletes exactly that record, leaves every
\* other record unchanged and returns changed = true; a second Remove of the
\* same link id returns changed = false and changes nothing.
C9_RemoveExisting ==
    IsRemoveEvent /\ mac_address \in DOMAIN before.json =>
        /\ json = [m \in DOMAIN before.json \ {mac_address} |-> before.json[m]]
        /\ changes_made
        /\ LET again == main(Files, args)
           IN ~again.changes_made /\ again.file = Files

\* A record was removed from a registry that held another record.
C9_Witness ==
    /\ IsRemoveEvent
    /\ mac_address \in DOMAIN before.json
    /\ DOMAIN json # {}

\* C10: Rename or Remove of a link id that has no record changes nothing: no
\* record is created, changed = false, and neither the registry file nor the
\* flag file is written (a missing file stays missing, an unset flag unset).
C10_MissingIsNoop ==
    (IsRename \/ IsRemoveEvent) /\ mac_address \notin DOMAIN before.json =>
        /\ ~changes_made
        /\ Files = before
        /\ exit_code = 0

\* A Rename named a link id that is not in the registry, which holds the
\* record of another link id, and returned without a change.
C10_Witness ==
    /\ IsRename
    /\ mac_address \notin DOMAIN before.json
    /\ DOMAIN before.json # {}
    /\ ~changes_made /\ exit_code = 0

\* C11: an action the script does not know (such as del, the expiry of a lease)
\* is ignored: the invocation exits with status 0 without going through
\* lock.acquire(), and the registry file and the flag file are as they were
\* (missing files stay missing).
C11_UnknownActionIgnored ==
    pc = "exited" /\ args.action = "del" =>
        /\ exit_code = 0
        /\ ~acquired
        /\ ~changes_made
        /\ Files = before

\* The lease of an address expired that the registry holds for its client.
C11_Witness ==
    /\ pc = "exited" /\ args.action = "del" /\ exit_code = 0
    /\ args.mac_address \in DOMAIN json
    /\ json[args.mac_address]["ipv4"] = args.ip_address

\* The invocation that just ended was one of instances-update.py in which
\* update_instance returned.
IsReconciled ==
    /\ pc = "exited" /\ args.action \in {"add", "old", "--remove", "--rename"}
    /\ acquired /\ exit_code = 0
\* What update_instance returned in it.
Reconciled ==
    update_instance(IF before.json_exists THEN before.json ELSE <<>>, mac_address,
                    IF args.action \in {"add", "old"} THEN ip_address_parse(args.ip_address)
                    ELSE None,
                    IF args.action = "--remove" THEN NoHostname ELSE Label)

\* C12: commit gating: an invocation of the reconciler writes the registry
\* file and sets the flag file if and only if update_instance returned true;
\* when it returned false no file is written, and the flag file is as it was
\* (a flag the generator has removed stays removed).
C12_CommitGating ==
    IsReconciled =>
        /\ changes_made = Reconciled.updated
        /\ changes_made =>
              Files = [before EXCEPT !.json_exists = TRUE, !.json = Reconciled.instances,
                                     !.updated = TRUE]
        /\ ~changes_made => Files = before

\* A lease was renewed after the generator had consumed the flag: nothing
\* changed and the flag file stays removed.
C12_Witness ==
    /\ IsReconciled /\ ~changes_made
    /\ before.json_exists /\ ~before.updated /\ ~updated
    /\ before.hosts # None

\* The invocation that just ended was a run of the generator.
IsGeneration == pc = "exited" /\ args.action = "process"

\* C13: dirty-flag gating: a non-forced run of the generator that follows
\* another non-forced run, with no save of the registry in between, exits
\* with status 10 and leaves the artifacts, the registry file and the flag
\* file, which is missing, as they were.
C13_SecondRunNothingToDo ==
    IsGeneration /\ ~args.is_forced /\ last_event = "generation" =>
        /\ exit_code = 10
        /\ ~updated
        /\ Files = before

\* The second run comes after a first one that generated the artifacts from
\* a registry with a record.
C13_Witness ==
    /\ IsGeneration /\ ~args.is_forced /\ last_event = "generation"
    /\ exit_code = 10
    /\ nftables_chains # None /\ Len(nftables_chains.instances_drop_arp) > 1
    /\ hosts # None

\* C14: force override: a run of the generator with --force, on a registry
\* file it can read and with a domain that matches, exits with status 0 and
\* writes the three artifacts from the registry file, whether the flag file
\* existed or not, and the flag file does not exist when the run ends.
C14_ForceOverride ==
    IsGeneration /\ args.is_forced /\ ~(before.json_exists /\ before.corrupt)
                 /\ domain_re(args.domain) =>
        /\ exit_code = 0
        /\ ~updated
        /\ hosts = save_instances_hosts(None, json, args.domain)
        /\ nftables_chains = save_instances_nftables(json, args.address_sets).chains
        /\ nftables_sets = save_instances_nftables(json, args.address_sets).sets
        /\ Files = process_main([before EXCEPT !.updated = ~before.updated], args).file

\* A forced run found no flag file, the rules of a previous run and a hosts
\* file that was not that of the registry, and wrote the hosts file.
C14_Witness ==
    /\ IsGeneration /\ args.is_forced /\ domain_re(args.domain)
    /\ ~before.updated /\ exit_code = 0
    /\ before.nftables_chains # None
    /\ hosts # before.hosts
    /\ hosts.lines # <<>>

\* C18: the reconciler is total: for every registry and every well-formed
\* event (valid link id, valid name, any valid IPv4 or IPv6 address),
\* update_instance returns the registry and the flag; it never raises, and
\* the invocation does not fail.
C18_ReconcilerTotal ==
    /\ pc = "exited" /\ args.action \in {"add", "old", "--rename", "--remove"}
    /\ acquired /\ ~(before.json_exists /\ before.corrupt)
    => ~Reconciled.raised /\ exit_code = 0

\* The invocation that just ended was one of instances-update.py.
IsReconciler == pc = "exited" /\ args.action \notin {"process", "none"}
\* It was given an IP address, a MAC address, an interface or a name that
\* is not one, and got as far as checking it.
IsRejected ==
    /\ IsReconciler
    /\ \/ /\ args.action \in {"add", "old"}
          /\ \/ ~ip_address_valid(args.ip_address)
             \/ mac_address # <<>> /\ ~mac_address_re(mac_address)
             \/ mac_address # <<>> /\ args.hostname # NoHostname /\ ~hostname_re(args.hostname)
       \/ /\ args.action \in {"--rename", "--remove"}
          /\ ~mac_address_re(args.mac_address)
       \/ /\ args.action \in {"--rename", "--initialize"}
          /\ ~hostname_re(args.ip_address)
       \/ /\ args.action = "--initialize"
          /\ ~interface_re(args.mac_address)
\* --initialize found no MAC address, or no valid one, for the interface.
IsBootstrapFailure ==
    /\ IsReconciler /\ args.action = "--initialize" /\ acquired
    /\ \/ Len(args.ip_output.mac) # 1
       \/ ~mac_address_re(args.ip_output.mac[1])
\* It could not read the registry file.
IsUnreadable == IsReconciler /\ acquired /\ before.json_exists /\ before.corrupt
\* update_instance raised.
IsRaised ==
    /\ IsReconciler /\ args.action \in {"add", "old"} /\ acquired
    /\ ~(before.json_exists /\ before.corrupt)
    /\ Reconciled.raised

\* C19: failure atomicity of the reconciler: an invocation that ends in an
\* error (an argument rejected, no valid MAC address for the interface of
\* --initialize, a registry file that cannot be read, an exception before
\* the save) exits with a status other than 0, and every invocation that
\* does leaves the registry file and the flag file as they were.
C19_FailureAtomicity ==
    IsReconciler =>
        /\ IsRejected \/ IsBootstrapFailure \/ IsUnreadable \/ IsRaised => exit_code # 0
        /\ exit_code # 0 => Files = before /\ ~changes_made

\* update_instance raised after it had created, in memory, the record of a
\* MAC address that the registry file, which has a record and a set flag,
\* does not hold.
C19_Witness ==
    /\ IsRaised /\ exit_code = 1
    /\ mac_address \notin DOMAIN before.json
    /\ DOMAIN before.json # {}
    /\ before.updated

\* The run of the generator got past the check of the flag file.
IsGenerating == IsGeneration /\ ~NothingToDo(before, args.is_forced)
\* Its configuration has a domain or a set name that does not match.
IsMalformed ==
    \/ ~domain_re(args.domain)
    \/ \E k \in 1..Len(args.address_sets) : ~hostname_re(args.address_sets[k])

\* C20: a run of the generator configured with a domain or a set name that
\* does not match exits with a status other than 0 and writes no artifact.
C20_MalformedRejected ==
    IsGenerating /\ IsMalformed =>
        /\ exit_code # 0
        /\ hosts = before.hosts
        /\ nftables_chains = before.nftables_chains
        /\ nftables_sets = before.nftables_sets

\* ------------------------------------------------- the lock (C15 .. C17)
\* The places of a script between lock.acquire() and lock.release().
InsideLock ==
    {"load", "update", "save", "touch", "check", "gload", "hosts", "chains", "sets",
     "release"}

\* C15: at most one process at a time is between lock.acquire() and
\* lock.release(), and it is the holder of the lock; a process that has read
\* or written a file of the registry instance acquired the lock before; and
\* the registry file, the flag file and the generated files change only by
\* a step of the process that holds the lock.
C15_MutualExclusion ==
    /\ [](/\ \A p, q \in Procs :
                proc[p].pc \in InsideLock /\ proc[q].pc \in InsideLock => p = q
          /\ \A p \in Procs :
                /\ proc[p].pc \in InsideLock => lock = p
                /\ proc[p].accessed => proc[p].held)
    /\ [][file_vars' # file_vars =>
              /\ lock \in Procs
              /\ proc[lock].pc \in InsideLock
              /\ \A q \in Procs \ {lock} : proc'[q] = proc[q]]_vars

\* A reconciler has written the registry file and is about to touch the flag
\* file while the other process waits in lock.acquire().
C15_Witness ==
    \E p, q \in Procs :
        /\ p # q
        /\ proc[p].pc = "touch" /\ lock = p
        /\ proc[q].pc = "acquire"
        /\ json_exists /\ json # <<>>

\* C16: a process whose invocation has ended does not hold the lock.
C16_LockReleased ==
    \A p \in Procs : proc[p].pc = "exited" => lock # p

\* An invocation that held the lock ended with status 1 while the other
\* process waits for the lock, which is free.
C16_Witness ==
    \E p, q \in Procs :
        /\ p # q
        /\ proc[p].pc = "exited" /\ proc[p].held /\ proc[p].exit_code = 1
        /\ proc[q].pc = "acquire"
        /\ lock = 0

\* C17: every invocation ends; and the step that ends an invocation waiting
\* in lock.acquire() gives it a status other than 0, leaves every file and
\* the lock as they are, and the invocation has neither held the lock nor
\* read or written a file.
C17_NoIndefiniteBlocking ==
    /\ \A p \in Procs : (proc[p].pc # "exited") ~> (proc[p].pc = "exited")
    /\ [][\A p \in Procs :
              proc[p].pc = "acquire" /\ proc'[p].pc = "exited" =>
                  /\ proc'[p].exit_code # 0
                  /\ ~proc'[p].held /\ ~proc'[p].accessed
                  /\ file_vars' = file_vars
                  /\ lock' = lock /\ lock \in Procs \ {p}]_vars

\* The wait of a process for the lock ended with Timeout while the other
\* process, a generator that has consumed the flag file, holds the lock.
C17_Witness ==
    \E p, q \in Procs :
        /\ p # q
        /\ proc[p].pc = "exited" /\ proc[p].exit_code = 1 /\ ~proc[p].held
        /\ proc[q].pc = "hosts" /\ lock = q
        /\ json_exists

\* ------------------------------------- the generator's failures (C21, C22)
\* C21: a run of the generator that ends with a status other than 0 and 10
\* (the registry file cannot be read, or a file cannot be written) leaves
\* the hosts file, the chains file and the sets file as they were before it.
C21_NoPartialArtifacts ==
    IsGeneration /\ exit_code \notin {0, 10} =>
        /\ hosts = before.hosts
        /\ nftables_chains = before.nftables_chains
        /\ nftables_sets = before.nftables_sets

\* A run of the generator has been started: it left a file, or it is the
\* run that has just ended and it got past the check of the flag file.
Generated ==
    \/ hosts # None \/ nftables_chains # None \/ nftables_sets # None
    \/ IsGenerating
\* What the generator writes for the registry file as it is, with the
\* default environment.
Projection ==
    LET instances == IF json_exists THEN json ELSE <<>>
        nftables == save_instances_nftables(instances, <<"host">>)
    IN [hosts |-> save_instances_hosts(None, instances, ".instance.internal"),
        nftables_chains |-> nftables.chains,
        nftables_sets |-> nftables.sets]

\* C22: when no invocation is running, a run of the generator has been
\* started, the flag file is missing and the registry file can be read, the
\* hosts file, the chains file and the sets file are what the generator
\* writes for the registry file as it is.
C22_FlagMeaning ==
    pc \in {"idle", "exited"} /\ Generated /\ ~updated /\ ~(json_exists /\ corrupt) =>
        /\ hosts = Projection.hosts
        /\ nftables_chains = Projection.nftables_chains
        /\ nftables_sets = Projection.nftables_sets

\* ------------------------------------------- the link-local address (C23)
\* Octet k of a MAC address, from its hex digits.
MacOctet(mac, k) == 16 * mac[2 * k - 1] + mac[2 * k]
\* The modified EUI-64 interface identifier of RFC 4291, Appendix A, as four
\* 16-bit numbers: the octets of the MAC address with bit 2 of the first
\* inverted and ff, fe between the third and the fourth.
Eui64(mac) ==
    LET o1 == MacOctet(mac, 1)
        flipped == IF (o1 \div 2) % 2 = 1 THEN o1 - 2 ELSE o1 + 2
    IN <<256 * flipped + MacOctet(mac, 2),
         256 * MacOctet(mac, 3) + 255,
         256 * 254 + MacOctet(mac, 4),
         256 * MacOctet(mac, 5) + MacOctet(mac, 6)>>

\* C23: the record an add or old event creates for a MAC address has, as
\* ipv6_lla, the address fe80::/64 with the EUI-64 identifier of the MAC
\* address, whatever the address and the name of the event and the other
\* records; for aa:bb:cc:dd:ee:ff it is the text fe80::a8bb:ccff:fedd:eeff.
C23_CreationDeterminism ==
    IsUpsert /\ exit_code = 0 /\ mac_address \notin DOMAIN before.json =>
        /\ mac_address \in DOMAIN json
        /\ ip_address_parse(json[mac_address]["ipv6_lla"]).h
              = <<65152, 0, 0, 0>> \o Eui64(mac_address)
        /\ mac_address = AllMacs[1] => json[mac_address]["ipv6_lla"] = LlaTextEui

\* An event for aa:bb:cc:dd:ee:ff with a unique-local address and a name
\* created its record in a registry that holds another record.
C23_Witness ==
    /\ IsUpsert /\ exit_code = 0 /\ mac_address \notin DOMAIN before.json
    /\ mac_address = AllMacs[1]
    /\ DOMAIN before.json # {}
    /\ StoredField = "ipv6_ula" /\ args.hostname # NoHostname

\* ------------------------------------------ the hosts file (C24, C25)
\* A run of the generator wrote the files.
HasGenerated == IsGeneration /\ exit_code = 0
\* The addresses of the named records: (MAC address, field).
NamedAddresses ==
    {x \in (DOMAIN json) \X {"ipv4", "ipv6_gua", "ipv6_ula", "ipv6_lla"} :
        json[x[1]]["name"] # "" /\ json[x[1]][x[2]] # None}
\* The row of the resolution table for an address of a named record: the
\* address, the primary name and the extra aliases, every name as the parts
\* it is joined from.
TableRow(name, field, address, suffix) ==
    [ip_address |-> address,
     full_name |-> IF field = "ipv6_lla" THEN <<name, ".l6", suffix>> ELSE <<name, suffix>>,
     extra_names |->
        CASE field = "ipv4" -> << <<name, ".v4", suffix>> >>
          [] field = "ipv6_gua" -> << <<name, ".v6", suffix>>, <<name, ".g6", suffix>> >>
          [] field = "ipv6_ula" -> << <<name, ".v6", suffix>>, <<name, ".u6", suffix>> >>
          [] field = "ipv6_lla" -> <<>>]

\* C24: the hosts file has as many lines as there are addresses of named
\* records, and for each of them exactly one line, with the address, the
\* primary name (name + suffix, name + ".l6" + suffix for ipv6_lla) and the
\* extra aliases of its field; a record without a name has no line.
C24_ResolutionTable ==
    HasGenerated =>
        /\ Len(hosts.lines) = Cardinality(NamedAddresses)
        /\ \A x \in NamedAddresses :
              Cardinality({k \in 1..Len(hosts.lines) :
                             hosts.lines[k] = TableRow(json[x[1]]["name"], x[2],
                                                       json[x[1]][x[2]], args.domain)}) = 1
        /\ \A k \in 1..Len(hosts.lines) :
              \E x \in NamedAddresses :
                  hosts.lines[k] = TableRow(json[x[1]]["name"], x[2], json[x[1]][x[2]],
                                            args.domain)

\* The files were written for a registry with a record that has a name and
\* all four addresses and a record that has addresses and no name.
C24_Witness ==
    /\ HasGenerated
    /\ \E m1, m2 \in DOMAIN json :
          /\ json[m1]["name"] = "web-1"
          /\ \A f \in {"ipv4", "ipv6_gua", "ipv6_ula", "ipv6_lla"} : json[m1][f] # None
          /\ json[m2]["name"] = "" /\ json[m2]["ipv4"] # None /\ json[m2]["ipv6_gua"] # None
    /\ Len(hosts.lines) = 4

\* The registry has two records, both with a name, an ipv4 and an ipv6_gua.
TwoNamedDualStack ==
    /\ Cardinality(DOMAIN json) = 2
    /\ \A m \in DOMAIN json :
          json[m]["name"] # "" /\ json[m]["ipv4"] # None /\ json[m]["ipv6_gua"] # None
\* The lines of the hosts file for the field.
LinesOf(field) ==
    {k \in 1..Len(hosts.lines) :
        \E m \in DOMAIN json : hosts.lines[k].ip_address = json[m][field]}

\* C25 as stated: for a registry of two named records that have an ipv4 and
\* an ipv6_gua each, the hosts file has exactly 4 lines, with 1 extra alias
\* on the lines of ipv4 and 2 on the lines of ipv6_gua.
C25_FourRows ==
    HasGenerated /\ TwoNamedDualStack =>
        /\ Len(hosts.lines) = 4
        /\ \A k \in LinesOf("ipv4") : Len(hosts.lines[k].extra_names) = 1
        /\ \A k \in LinesOf("ipv6_gua") : Len(hosts.lines[k].extra_names) = 2

\* C25, amended: for such a registry the hosts file has exactly 2 lines of
\* ipv4, with 1 extra alias each, and 2 lines of ipv6_gua, with 2 extra
\* aliases each; besides these 4 it has one line for every ipv6_ula and
\* every ipv6_lla of the records, which makes 6 lines for two records that
\* add or old created and that have no ipv6_ula.
C25_FourRowsAndTheOthers ==
    HasGenerated /\ TwoNamedDualStack =>
        /\ Cardinality(LinesOf("ipv4")) = 2
        /\ Cardinality(LinesOf("ipv6_gua")) = 2
        /\ \A k \in LinesOf("ipv4") : Len(hosts.lines[k].extra_names) = 1
        /\ \A k \in LinesOf("ipv6_gua") : Len(hosts.lines[k].extra_names) = 2
        /\ Len(hosts.lines) =
              4 + Cardinality({x \in (DOMAIN json) \X {"ipv6_ula", "ipv6_lla"} :
                                 json[x[1]][x[2]] # None})
        /\ (\A m \in DOMAIN json :
               json[m]["ipv6_ula"] = None /\ json[m]["ipv6_lla"] = ipv6_lla_of(m))
              => Len(hosts.lines) = 6

\* The files were written for two named records with an ipv4, an ipv6_gua
\* and the ipv6_lla of their creation: the hosts file has 6 lines.
C25_Witness ==
    /\ HasGenerated /\ TwoNamedDualStack
    /\ \A m \in DOMAIN json : json[m]["ipv6_ula"] = None
    /\ Len(hosts.lines) = 6

\* ------------------------------------------- the chains (C26 .. C28)
\* The lines of a chain but the last.
Permits(chain) == SubSeq(chain, 1, Len(chain) - 1)
\* The chain is lines that return, then one line that drops whatever gets
\* there.
PermitsThenDrop(chain) ==
    /\ Len(chain) >= 1
    /\ chain[Len(chain)] = [verdict |-> "drop", comment |-> "lockdown"]
    /\ \A k \in 1..(Len(chain) - 1) : chain[k].verdict = "return"
\* The IPv6 addresses of the records, named or not: (MAC address, field).
Ipv6Addresses ==
    {x \in (DOMAIN json) \X {"ipv6_gua", "ipv6_ula", "ipv6_lla"} : json[x[1]][x[2]] # None}

\* C26: chain instances_drop_arp is one line that returns for every record
\* with an ipv4 and then one drop; chain instances_drop_ndp is one line that
\* returns for every ipv6_gua, ipv6_ula and ipv6_lla of every record, named or
\* not, and then one drop; the count of rules the run reports is the number
\* of lines of both.
C26_ChainShape ==
    HasGenerated =>
        LET arp == nftables_chains.instances_drop_arp
            ndp == nftables_chains.instances_drop_ndp
        IN /\ PermitsThenDrop(arp)
           /\ Len(arp) = Cardinality({m \in DOMAIN json : json[m]["ipv4"] # None}) + 1
           /\ \A m \in DOMAIN json :
                 Cardinality({k \in 1..(Len(arp) - 1) : arp[k].mac_address = m})
                    = IF json[m]["ipv4"] # None THEN 1 ELSE 0
           /\ PermitsThenDrop(ndp)
           /\ Len(ndp) = Cardinality(Ipv6Addresses) + 1
           /\ \A x \in Ipv6Addresses :
                 Cardinality({k \in 1..(Len(ndp) - 1) :
                                /\ ndp[k].mac_address = x[1]
                                /\ ndp[k].ip_hex = ExplodedHex(ip_address_parse(
                                                       json[x[1]][x[2]]))}) = 1
           /\ save_instances_nftables(json, args.address_sets).count = Len(arp) + Len(ndp)

\* The files were written for a registry of a record without a name that
\* has an ipv4 and three IPv6 addresses and a named record that has no ipv4.
C26_Witness ==
    /\ HasGenerated
    /\ \E m1, m2 \in DOMAIN json :
          /\ json[m1]["name"] = "" /\ json[m1]["ipv4"] # None
          /\ json[m1]["ipv6_gua"] # None /\ json[m1]["ipv6_ula"] # None
          /\ json[m2]["name"] # "" /\ json[m2]["ipv4"] = None
    /\ Len(nftables_chains.instances_drop_arp) = 2
    /\ Len(nftables_chains.instances_drop_ndp) >= 5

\* C27: the lines of instances_drop_arp that return are the pairs (ipv4,
\* MAC address) of the records with an ipv4: every line matches the sender
\* IP of the ARP packet and the source address of the frame against the
\* ipv4 and the MAC address of one record, and every record with an ipv4
\* has its line.
C27_ArpBinding ==
    HasGenerated =>
        LET permits == Permits(nftables_chains.instances_drop_arp)
        IN /\ \A k \in 1..Len(permits) : permits[k].match = "arp saddr ip"
           /\ {<<permits[k].ip_address, permits[k].mac_address>> : k \in 1..Len(permits)}
                 = {<<json[m]["ipv4"], m>> :
                       m \in {mac \in DOMAIN json : json[mac]["ipv4"] # None}}

\* The files were written for two records with an ipv4 each: two lines
\* that return, for different addresses and different MAC addresses.
C27_Witness ==
    /\ HasGenerated
    /\ Cardinality({m \in DOMAIN json : json[m]["ipv4"] # None}) = 2
    /\ LET permits == Permits(nftables_chains.instances_drop_arp)
       IN /\ Len(permits) = 2
          /\ permits[1].ip_address # permits[2].ip_address
          /\ permits[1].mac_address # permits[2].mac_address

\* C28: every line of instances_drop_ndp that returns matches the 128 bits
\* at bit 384 of the packet (the 40 bytes of the IPv6 header and the first
\* 8 bytes of the neighbor advertisement come before the target address)
\* against the 32 hex digits of the whole value of an ipv6_gua, ipv6_ula or
\* ipv6_lla of a record, and the source address of the frame against the
\* MAC address of that record.
C28_NdpMatch ==
    HasGenerated =>
        LET permits == Permits(nftables_chains.instances_drop_ndp)
        IN \A k \in 1..Len(permits) :
              /\ permits[k].match = "@nh"
              /\ permits[k].offset = 8 * (40 + 8)
              /\ permits[k].len = 128
              /\ Len(permits[k].ip_hex) * 4 = permits[k].len
              /\ \E x \in Ipv6Addresses :
                    /\ permits[k].mac_address = x[1]
                    /\ \A j \in 1..8 :
                          HexVal(SubSeq(permits[k].ip_hex, 4 * j - 3, 4 * j))
                             = ip_address_parse(json[x[1]][x[2]]).h[j]

\* The files were written for a record with an ipv6_gua, an ipv6_ula and an
\* ipv6_lla, whose texts are compressed: three lines that return for it.
C28_Witness ==
    /\ HasGenerated
    /\ \E m \in DOMAIN json :
          /\ json[m]["ipv6_gua"] = GuaText /\ json[m]["ipv6_ula"] = UlaText
          /\ json[m]["ipv6_lla"] # None
          /\ LET permits == Permits(nftables_chains.instances_drop_ndp)
             IN Cardinality({k \in 1..Len(permits) : permits[k].mac_address = m}) = 3

\* ------------------------------------------- the address sets (C29, C30)
\* The group names of the configuration that are hostnames.
ValidGroups ==
    {args.address_sets[k] :
        k \in {j \in 1..Len(args.address_sets) :
                 args.address_sets[j] # "" /\ hostname_re(args.address_sets[j])}}
\* The identifier the sets of a group are written under: its characters with
\* "_" for "-".
IdentifierOf(g) ==
    [k \in 1..Len(Spelling[g]) |-> IF Spelling[g][k] = "-" THEN "_" ELSE Spelling[g][k]]
\* The field a bucket takes its addresses from; v6 is g6 and u6 together.
BucketField == [v4 |-> "ipv4", g6 |-> "ipv6_gua", u6 |-> "ipv6_ula", l6 |-> "ipv6_lla"]
\* The values the records of the given MAC addresses have in the field.
ValuesOf(macs, field) == {json[m][field] : m \in {mac \in macs : json[mac][field] # None}}

\* C29: for every configured group name that is a hostname, with or without
\* a hyphen, and every record, the addresses of the record are in the sets
\* of the group if and only if the name of the record is the group name as
\* it is configured.
C29_GroupMembership ==
    HasGenerated =>
        \A g \in ValidGroups :
            /\ IdentifierOf(g) \in DOMAIN nftables_sets.sets
            /\ \A m \in DOMAIN json, b \in DOMAIN BucketField :
                  json[m][BucketField[b]] # None =>
                     (json[m][BucketField[b]] \in nftables_sets.sets[IdentifierOf(g)][b]
                        <=> json[m]["name"] = g)

\* C30: the sets file has the sets of all records and those of every
\* configured group name that is a hostname, five buckets each; v4, g6, u6
\* and l6 hold the ipv4, ipv6_gua, ipv6_ula and ipv6_lla of the members (all
\* records, named or not, for the sets of all records; the records of that
\* name for a group), and v6 holds what g6 and u6 hold.
C30_Buckets ==
    HasGenerated =>
        LET sets == nftables_sets.sets
            members(key) ==
                IF key = <<>> THEN DOMAIN json
                ELSE {m \in DOMAIN json :
                        \E g \in ValidGroups : IdentifierOf(g) = key /\ json[m]["name"] = g}
        IN /\ DOMAIN sets = {<<>>} \cup {IdentifierOf(g) : g \in ValidGroups}
           /\ \A key \in DOMAIN sets :
                 /\ DOMAIN sets[key] = {"v4", "v6", "g6", "u6", "l6"}
                 /\ \A b \in DOMAIN BucketField :
                       sets[key][b] = ValuesOf(members(key), BucketField[b])
                 /\ sets[key]["v6"] = sets[key]["g6"] \cup sets[key]["u6"]

\* ------------------------------------ the events of the reconciler (C31 .. C35)
\* The invocation that just ended was an add or old with an IPv6 address
\* while DNSMASQ_MAC was not set.
IsLeaseWithoutLinkId ==
    /\ pc = "exited" /\ args.action \in {"add", "old"}
    /\ ip_address_valid(args.ip_address)
    /\ ip_address_parse(args.ip_address).t = "IPv6Address"
    /\ args.DNSMASQ_MAC = <<>>

\* C31: an UpsertAddress of an IPv6 address for which DNSMASQ_MAC gives no
\* link id makes no update: the invocation exits with status 0 before the
\* lock, the MAC address of the command line is not taken in its place, and
\* the registry file and the flag file are as they were.
C31_NoLinkIdNoUpdate ==
    IsLeaseWithoutLinkId =>
        /\ exit_code = 0
        /\ mac_address = <<>>
        /\ ~changes_made /\ ~acquired
        /\ Files = before

\* Such an invocation ended while the registry had no record for the MAC
\* address of the command line, nor a record with the address.
C31_Witness ==
    /\ IsLeaseWithoutLinkId
    /\ before.json_exists /\ DOMAIN before.json # {}
    /\ args.mac_address \notin DOMAIN before.json
    /\ StoredField # "None"
    /\ \A m \in DOMAIN before.json : before.json[m][StoredField] # StoredText

\* The invocation that just ended ran update_instance (UpsertAddress,
\* Bootstrap, Rename or Remove) and returned from it.
IsReconcile ==
    /\ pc = "exited" /\ acquired /\ exit_code = 0
    /\ args.action \in {"add", "old", "--initialize", "--rename", "--remove"}
\* The registry the invocation found: the dict of the file, {} without file.
RegistryBefore == IF before.json_exists THEN before.json ELSE <<>>

\* C32: the changed result is exact: for every registry and every event
\* (UpsertAddress, Bootstrap, Rename, Remove) changed is true if and only if
\* the registry after the event differs from the registry before it; a
\* Bootstrap repeated with the same label and the same observed addresses
\* returns changed = false.
C32_ChangedExact ==
    IsReconcile => (changes_made <=> json # RegistryBefore)

\* The invocation that just ended was an UpsertAddress for a MAC address
\* that had a record.
IsUpsertOfExisting ==
    IsUpsert /\ acquired /\ before.json_exists /\ mac_address \in DOMAIN before.json

\* C33: UpsertAddress on an existing record never changes a name: whatever
\* label the event carries, the registry has the same records after the
\* event and each of them, the target and every other, has the name it had.
C33_UpsertKeepsNames ==
    IsUpsertOfExisting =>
        /\ DOMAIN json = DOMAIN before.json
        /\ \A m \in DOMAIN json : json[m]["name"] = before.json[m]["name"]

\* An UpsertAddress for an existing record carried a label that is not the
\* name of the record and that another record holds, and took an address
\* from that record.
C33_Witness ==
    /\ IsUpsertOfExisting /\ changes_made
    /\ Label # NoHostname /\ before.json[mac_address]["name"] # Label
    /\ \E m \in DOMAIN before.json \ {mac_address} :
          /\ before.json[m]["name"] = Label
          /\ StoredField # "None"
          /\ before.json[m][StoredField] = StoredText
          /\ json[m][StoredField] = None

\* The address of the UpsertAddress is an IPv6 address that is neither
\* global nor unique-local, such as a link-local address.
IsUnroutedAddress ==
    /\ ip_address_parse(args.ip_address).t = "IPv6Address"
    /\ StoredField = "None"

\* C34: link-local updates are ignored: an UpsertAddress with a link-local
\* IPv6 address (or any IPv6 address that is neither global nor
\* unique-local) for an existing record returns changed = false and leaves
\* the whole registry as it was, in every reachable state of the registry.
C34_LinkLocalIgnored ==
    IsUpsertOfExisting /\ IsUnroutedAddress =>
        /\ exit_code = 0 /\ ~changes_made
        /\ Files = before

\* C35: first claim wins also when Bootstrap creates the record: after a
\* Bootstrap for a MAC address that had no record, with a label another
\* record holds, the holder has kept its name and the new record has none.
C35_BootstrapFirstClaim ==
    /\ IsBootstrap /\ IsReconcile
    /\ mac_address \notin DOMAIN RegistryBefore
    /\ \E m \in DOMAIN RegistryBefore : RegistryBefore[m]["name"] = Label
    => /\ \A m \in DOMAIN RegistryBefore :
             m \in DOMAIN json /\ json[m]["name"] = RegistryBefore[m]["name"]
       /\ json[mac_address]["name"] = ""

\* ------------------------------- reconcilers side by side (C36)
\* The two invocations have ended.
BothEnded == \A p \in Procs : proc[p].pc = "exited"
\* The files after the command line of p and then that of q, each run alone
\* from its start to its end, on the files the two invocations found.
OneAfterTheOther(p, q) == main(main(before, args[p]).file, args[q])
\* The files are those after the two events one after the other in some
\* order, and the flag file is there if one of the two changed the registry.
Serialized ==
    \E p, q \in Procs :
        /\ p # q
        /\ Files = OneAfterTheOther(p, q).file
        /\ main(before, args[p]).changes_made \/ OneAfterTheOther(p, q).changes_made
              => updated

C37_CommitPickedUp ==
    IsGeneration /\ ~args.is_forced /\ last_event = "commit" =>
        /\ exit_code # 10
        /\ ~updated
        /\ hosts = Projection.hosts
        /\ nftables_chains = Projection.nftables_chains
        /\ nftables_sets = Projection.nftables_sets

\* ------------------------------------- the chains of any registry (C38)
\* The chains the generator writes for the registry file as it is.
ChainsOfRegistry ==
    save_instances_nftables(IF json_exists THEN json ELSE <<>>, <<"host">>).chains
\* The global and unique-local addresses of the registry, as the 32 hex
\* digits of the rules.
RoutedHex ==
    {ExplodedHex(ip_address_parse(json[x[1]][x[2]])) :
        x \in {y \in (DOMAIN json) \X {"ipv6_gua", "ipv6_ula"} : json[y[1]][y[2]] # None}}

\* C38: for every registry the events of the reconciler, Bootstrap among
\* them, lead to, the chain instances_drop_arp the generator writes has no
\* two lines that return for the same IPv4 address and different MAC
\* addresses, and the chain instances_drop_ndp has no two lines that return
\* for the same global or unique-local address and different MAC addresses.
C38_AntiSpoofBinding ==
    LET arp == Permits(ChainsOfRegistry.instances_drop_arp)
        ndp == Permits(ChainsOfRegistry.instances_drop_ndp)
    IN /\ \A i, j \in 1..Len(arp) :
             arp[i].ip_address = arp[j].ip_address => arp[i].mac_address = arp[j].mac_address
       /\ \A i, j \in 1..Len(ndp) :
             ndp[i].ip_hex = ndp[j].ip_hex /\ ndp[i].ip_hex \in RoutedHex
                => ndp[i].mac_address = ndp[j].mac_address

\* ------------------------------------------ the frame of Bootstrap (C39)
\* The field an address observed on the interface belongs to.
ObservedField(text) ==
    LET ip == ip_address_parse(text)
    IN IF ip.t # "IPv6Address" THEN "ipv4"
       ELSE IF is_global(ip) THEN "ipv6_gua"
       ELSE IF ULA_supernet_of(ip) THEN "ipv6_ula"
       ELSE IF is_link_local(ip) THEN "ipv6_lla"
       ELSE "None"
\* The addresses "ip" printed for the interface, IPv4 and IPv6.
Observed ==
    {args.ip_output.inet[k] : k \in 1..Len(args.ip_output.inet)}
    \cup {args.ip_output.inet6[k] : k \in 1..Len(args.ip_output.inet6)}

====
